---------------------------- MODULE Spec2Model ----------------------------
(***************************************************************************)
(* A model of the DOTT transfer tools (tools/dott_upload.py,               *)
(* tools/dott_upload_v2.py, tools/dott_upload_correct.py and               *)
(* tools/dott_flash.py).                                                   *)
(*                                                                         *)
(* Every tool is a sequential asyncio coroutine that talks to one BLE      *)
(* link.  A model step is the code between two awaits; the notification    *)
(* callbacks run between steps, as the asyncio loop runs them.  The link   *)
(* and the device are the environment: a write or a read may raise, and    *)
(* the device may notify anything at any time.                             *)
(*                                                                         *)
(* Bytes are integers 0..255 and byte strings are sequences of them.  The  *)
(* results of the upload coroutines are the strings "True", "False" and    *)
(* "None", "Raised" when an exception leaves the coroutine, and "Pending"  *)
(* while it runs.                                                          *)
(***************************************************************************)
EXTENDS Integers, Sequences, FiniteSets, TLC

VARIABLES
    client,     \* dott_upload.py: DOTTClient and the locals of upload_gif
    clientV2,   \* dott_upload_v2.py: DOTTClientV2 and the locals of upload_gif
    uploader,   \* dott_upload_correct.py: DOTTUploader and the locals of upload
    flasher,    \* dott_flash.py: DOTTFlasher and the locals of upload_firmware
    chunker,    \* the streaming loops alone, for any chunk size >= 1
    validator,  \* the payload validators alone, each applied to one payload
    backoff,    \* _calculate_backoff alone, applied to two retry counts
    codec,      \* build_smp_packet and parse_smp_response alone
    session,    \* smp_command alone, called again and again in one session
    recovery,   \* emergency_recovery.py: main and its calls of quick_upload
    looper,     \* the while loop of upload_firmware alone, without its history
    tester,     \* dott_upload_v5.py / dott_upload_v6.py: run_tests
    link,       \* every GATT operation issued so far, in order, with its outcome
    notified    \* how many notifications the device has delivered so far

vars == <<client, clientV2, uploader, flasher, chunker, validator, backoff, codec,
          session, recovery, looper, tester, link, notified>>

---------------------------------------------------------------------------
(* Bounds of the model *)

\* notifications the device delivers during one DOTTUploader / DOTTClientV2 run
MaxNotifs == 2
\* notifications the device delivers during one DOTTFlasher run
MaxResponses == 3
\* notifications that wait in the DOTTFlasher queue at one time
MaxQueue == 1
\* longest payload handed to the bare streaming loops
MaxLen == 4
\* largest chunk size handed to the bare streaming loops
MaxChunk == 3

---------------------------------------------------------------------------
(* Python helpers *)

Min(a, b) == IF a < b THEN a ELSE b
Max(a, b) == IF a > b THEN a ELSE b

\* s[a:b] for 0 <= a, 0 <= b
Slice(s, a, b) == SubSeq(s, a + 1, Min(b, Len(s)))

\* s[-1:]
LastSlice(s) == IF Len(s) = 0 THEN <<>> ELSE <<s[Len(s)]>>

\* the mutant of UnpackLE16: the bytes are read big-endian
UnpackBE16(b) == 256 * b[1] + b[2]

\* struct.unpack('<H', b)[0] for a 2-byte b
UnpackLE16(b) == b[1] + 256 * b[2]

\* struct.pack('<I', n)
PackLE32(n) ==
    << n % 256, (n \div 256) % 256, (n \div 65536) % 256, (n \div 16777216) % 256 >>

RECURSIVE Flatten(_)
Flatten(ss) == IF ss = <<>> THEN <<>> ELSE Head(ss) \o Flatten(Tail(ss))

\* (n + s - 1) // s
CeilDiv(n, s) == (n + s - 1) \div s

---------------------------------------------------------------------------
(* The link log *)

WriteOp(char, data, response, ok) ==
    [op |-> "write", char |-> char, data |-> data, response |-> response, ok |-> ok]
ReadOp(char, ok) ==
    [op |-> "read", char |-> char, data |-> <<>>, response |-> FALSE, ok |-> ok]

IsWriteTo(e, char) == e.op = "write" /\ e.char = char
IsOkWriteTo(e, char) == e.op = "write" /\ e.char = char /\ e.ok

RECURSIVE DataOf(_)
DataOf(log) == IF log = <<>> THEN <<>> ELSE <<Head(log).data>> \o DataOf(Tail(log))

\* the payloads of the writes to char that completed, in order
Written(char) == DataOf(SelectSeq(link, LAMBDA e : IsOkWriteTo(e, char)))
\* the payloads of all write attempts to char, in order
Attempted(char) == DataOf(SelectSeq(link, LAMBDA e : IsWriteTo(e, char)))

---------------------------------------------------------------------------
(* Payloads *)

GIF87a == <<71, 73, 70, 56, 55, 97>>
GIF89a == <<71, 73, 70, 56, 57, 97>>
GIX89a == <<71, 73, 88, 56, 57, 97>>
TRAILER == 59

\* n bytes of image data, none of them the trailer, and no two of the first
\* 190 the same
Filler(n) == [i \in 1..n |-> 60 + (i % 190)]

\* a file with the given signature, logical screen size, n bytes of data and
\* a last byte
GifFile(magic, w, h, n, last) ==
    magic \o <<w % 256, w \div 256, h % 256, h \div 256>> \o <<0, 0, 0>>
          \o Filler(n) \o <<last>>

\* the files handed to DOTTClient.upload_gif and DOTTClientV2.upload_gif
GifFiles ==
    { GifFile(GIF89a, 64, 64, 6, TRAILER),      \* 20 bytes
      GifFile(GIF87a, 240, 1, 27, TRAILER),     \* 41 bytes
      GifFile(GIF89a, 64, 64, 30, TRAILER),     \* 44 bytes
      GifFile(GIF89a, 64, 64, 27, 0),           \* no trailer
      GifFile(GIX89a, 64, 64, 27, TRAILER),     \* bad signature
      GifFile(GIF89a, 0, 64, 6, TRAILER),       \* zero width
      GifFile(GIF89a, 64, 241, 6, TRAILER),     \* too high
      SubSeq(GifFile(GIF89a, 64, 64, 0, TRAILER), 1, 12),
      <<>> }

---------------------------------------------------------------------------
(* dott_upload.py *)

DEFAULT_MTU == 23
MAX_RETRIES == 5
BACKOFF_BASE_MS == 50
BACKOFF_MAX_MS == 1000

UUID_DOTT_TRANSFER == "1525"

\* the mutant of GifTooSmall: 13 bytes are too few as well
GifTooSmallAt13(data) == Len(data) <= 13

\* validate_gif: len(data) < 13
GifTooSmall(data) == Len(data) < 13

\* the mutant of GifBadMagic: the first two bytes are compared
GifBadMagicTwo(data) == Slice(data, 0, 2) # Slice(GIF89a, 0, 2)

\* validate_gif: magic not in (b'GIF87a', b'GIF89a')
GifBadMagic(data) == Slice(data, 0, 6) \notin {GIF87a, GIF89a}

\* validate_gif(data): the pair (is_valid, reason)
validate_gif(data) ==
    IF GifTooSmall(data) THEN <<FALSE, "TooSmall">>
    ELSE IF GifBadMagic(data) THEN <<FALSE, "BadMagic">>
    ELSE LET width  == UnpackLE16(Slice(data, 6, 8))
             height == UnpackLE16(Slice(data, 8, 10))
         IN  IF width = 0 \/ height = 0 THEN <<FALSE, "ZeroDimension">>
             ELSE IF width > 240 \/ height > 240 THEN <<FALSE, "TooLarge">>
             ELSE IF LastSlice(data) # <<TRAILER>> THEN <<FALSE, "MissingTrailer">>
             ELSE <<TRUE, "Valid">>

\* what client.mtu_size may report in connect: an integer, None, or an error
MtuInt(n) == [kind |-> "int", value |-> n]
MtuNone == [kind |-> "None", value |-> 0]
MtuRaises == [kind |-> "Raises", value |-> 0]
MtuReports == {MtuNone, MtuRaises, MtuInt(10), MtuInt(23), MtuInt(25), MtuInt(30)}

\* DOTTClient.connect: the MTU kept after the query
ConnectMtu(reported) ==
    IF reported.kind # "int" THEN DEFAULT_MTU
    ELSE IF reported.value < DEFAULT_MTU THEN DEFAULT_MTU
    ELSE reported.value

\* _find_transfer_characteristic: the write type for the characteristic's properties
WriteTypeFor(props) ==
    IF "write-without-response" \in props THEN "write-without-response"
    ELSE IF "write" \in props THEN "write"
    ELSE "None"

\* upload_gif: chunk size (MTU - 3 ATT header bytes), at least 20
ClientChunkSize(mtu_size) == IF mtu_size - 3 < 20 THEN 20 ELSE mtu_size - 3

\* the mutant of ClientTransferData: the size header of the earlier versions
ClientTransferDataWithHeader(data, send_size_header) == PackLE32(Len(data)) \o data

\* upload_gif: the bytes to stream
ClientTransferData(data, send_size_header) ==
    IF send_size_header THEN PackLE32(Len(data)) \o data ELSE data

\* the mutant of ClientChunk: a slice one byte short
ClientChunkShort(transfer_data, offset, chunk_size) ==
    Slice(transfer_data, offset, offset + chunk_size - 1)

\* upload_gif: chunk = transfer_data[offset:offset + chunk_size]
ClientChunk(transfer_data, offset, chunk_size) ==
    Slice(transfer_data, offset, offset + chunk_size)

RECURSIVE ClientStream(_, _, _)
\* upload_gif: the chunks of the streaming loop from offset on, when every
\* write succeeds
ClientStream(transfer_data, offset, chunk_size) ==
    IF offset < Len(transfer_data)
    THEN LET chunk == ClientChunk(transfer_data, offset, chunk_size)
         IN  <<chunk>> \o ClientStream(transfer_data, offset + Len(chunk), chunk_size)
    ELSE <<>>

\* the mutant of ClientRetries: one attempt more
ClientRetriesOneMore(attempt) == attempt < MAX_RETRIES

\* _write_chunk: whether a failed attempt (0-based) is followed by another
ClientRetries(attempt) == attempt < MAX_RETRIES - 1

\* the mutant of calculate_backoff: no ceiling
calculate_backoff_uncapped(retry_count) == BACKOFF_BASE_MS * (2 ^ (retry_count - 1))

\* _calculate_backoff(retry_count), in milliseconds
calculate_backoff(retry_count) ==
    Min(BACKOFF_BASE_MS * (2 ^ (retry_count - 1)), BACKOFF_MAX_MS)

ClientOff ==
    [pc |-> "off", mtu_size |-> DEFAULT_MTU, transfer_char |-> FALSE,
     write_type |-> "None", data |-> <<>>, force |-> FALSE,
     send_size_header |-> FALSE, transfer_data |-> <<>>, chunk_size |-> 0,
     total_chunks |-> 0, offset |-> 0, bytes_sent |-> 0, chunk_num |-> 0,
     chunk |-> <<>>, attempt |-> 0, delay |-> 0, result |-> "Pending"]

\* DOTTClient.__init__
InitClient ==
    /\ client = [ClientOff EXCEPT !.pc = "init"]
    /\ clientV2 = [pc |-> "off"]
    /\ uploader = [pc |-> "off"]
    /\ flasher = [pc |-> "off"]
    /\ chunker = [pc |-> "off"]
    /\ validator = [pc |-> "off"]
    /\ backoff = [pc |-> "off"]
    /\ codec = [pc |-> "off"]
    /\ session = [pc |-> "off"]
    /\ recovery = [pc |-> "off"]
    /\ looper = [pc |-> "off"]
    /\ tester = [pc |-> "off"]
    /\ link = <<>>
    /\ notified = 0

ClientOthers == <<clientV2, uploader, flasher, chunker, validator, backoff, codec,
                  session, recovery, looper, tester, notified>>

\* DOTTClient.connect
ClientConnect ==
    /\ client.pc = "init"
    /\ \E reported \in MtuReports, found \in BOOLEAN,
          props \in {{"write-without-response", "write"}, {"write"}, {}} :
          client' = [client EXCEPT
              !.pc = "connected",
              !.mtu_size = ConnectMtu(reported),
              !.transfer_char = found,
              !.write_type = IF found THEN WriteTypeFor(props) ELSE "None"]
    /\ UNCHANGED <<link, ClientOthers>>

\* the mutant of ClientRejects: force is not looked at
ClientRejectsForced(is_valid, force) == ~is_valid

\* upload_gif: an invalid file without force ends the upload
ClientRejects(is_valid, force) == ~is_valid /\ ~force

\* upload_gif up to the first GATT operation: the characteristic check, the
\* file, its validation and the transfer settings
ClientUploadBegin ==
    /\ client.pc = "connected"
    /\ \E data \in GifFiles, force \in BOOLEAN, send_size_header \in BOOLEAN :
          LET is_valid == validate_gif(data)[1]
              chunk_size == ClientChunkSize(client.mtu_size)
          IN  client' =
                IF ~client.transfer_char
                THEN [client EXCEPT !.pc = "done", !.result = "False"]
                ELSE IF ClientRejects(is_valid, force)
                THEN [client EXCEPT !.pc = "done", !.result = "False",
                                    !.data = data, !.force = force,
                                    !.send_size_header = send_size_header]
                ELSE [client EXCEPT !.pc = "read_initial",
                                    !.data = data, !.force = force,
                                    !.send_size_header = send_size_header,
                                    !.chunk_size = chunk_size,
                                    !.total_chunks = CeilDiv(Len(data), chunk_size)]
    /\ UNCHANGED <<link, ClientOthers>>

\* upload_gif: the initial read of the characteristic (its failure is
\* swallowed), then the counters and the bytes to stream
ClientReadInitial ==
    /\ client.pc = "read_initial"
    /\ \E ok \in BOOLEAN : link' = Append(link, ReadOp(UUID_DOTT_TRANSFER, ok))
    /\ LET transfer_data == ClientTransferData(client.data, client.send_size_header)
       IN  client' = [client EXCEPT
               !.pc = "loop",
               !.bytes_sent = 0, !.chunk_num = 0, !.offset = 0,
               !.transfer_data = transfer_data,
               !.total_chunks = CeilDiv(Len(transfer_data), client.chunk_size)]
    /\ UNCHANGED ClientOthers

\* upload_gif: the head of the streaming loop
ClientLoop ==
    /\ client.pc = "loop"
    /\ client' =
         IF client.offset < Len(client.transfer_data)
         THEN [client EXCEPT
                 !.pc = "write",
                 !.chunk = ClientChunk(client.transfer_data, client.offset,
                                       client.chunk_size),
                 !.chunk_num = client.chunk_num + 1,
                 !.attempt = 0]
         ELSE [client EXCEPT !.pc = "final_read"]
    /\ UNCHANGED <<link, ClientOthers>>

\* _write_chunk: one attempt of write_gatt_char, and what follows it
ClientWriteChunk ==
    /\ client.pc = "write"
    /\ \E ok \in BOOLEAN :
         /\ link' = Append(link, WriteOp(UUID_DOTT_TRANSFER, client.chunk,
                                         client.write_type = "write", ok))
         /\ client' =
              IF ok
              THEN [client EXCEPT
                      !.pc = "loop",
                      !.bytes_sent = client.bytes_sent + Len(client.chunk),
                      !.offset = client.offset + Len(client.chunk)]
              ELSE IF ClientRetries(client.attempt)
              THEN [client EXCEPT
                      !.delay = calculate_backoff(client.attempt + 1),
                      !.attempt = client.attempt + 1]
              ELSE [client EXCEPT !.pc = "done", !.result = "False"]
    /\ UNCHANGED ClientOthers

\* upload_gif: the final read of the characteristic (its failure is
\* swallowed) and the return
ClientFinalRead ==
    /\ client.pc = "final_read"
    /\ \E ok \in BOOLEAN : link' = Append(link, ReadOp(UUID_DOTT_TRANSFER, ok))
    /\ client' = [client EXCEPT !.pc = "done", !.result = "True"]
    /\ UNCHANGED ClientOthers

NextClient ==
    \/ ClientConnect
    \/ ClientUploadBegin
    \/ ClientReadInitial
    \/ ClientLoop
    \/ ClientWriteChunk
    \/ ClientFinalRead

SpecClient == InitClient /\ [][NextClient]_vars

---------------------------------------------------------------------------
(* The streaming loops alone *)

\* dott_upload_correct.py, upload: chunk = gif_data[i:i+chunk_size]
UploaderChunk(gif_data, i, chunk_size) == Slice(gif_data, i, i + chunk_size)

RECURSIVE SeqsUpTo(_, _)
\* the sequences over S of length at most n
SeqsUpTo(S, n) ==
    IF n = 0 THEN {<<>>}
    ELSE LET shorter == SeqsUpTo(S, n - 1)
         IN  shorter \cup {Append(s, x) : s \in {t \in shorter : Len(t) = n - 1}, x \in S}

\* a payload, a chunk size and one of the two loops
InitChunker ==
    /\ \E P \in SeqsUpTo({0, 1}, MaxLen), S \in 1..MaxChunk, loop \in {"while", "range"} :
          chunker = [pc |-> "loop", loop |-> loop, P |-> P, S |-> S,
                     offset |-> 0, slices |-> <<>>]
    /\ client = [pc |-> "off"]
    /\ clientV2 = [pc |-> "off"]
    /\ uploader = [pc |-> "off"]
    /\ flasher = [pc |-> "off"]
    /\ validator = [pc |-> "off"]
    /\ backoff = [pc |-> "off"]
    /\ codec = [pc |-> "off"]
    /\ session = [pc |-> "off"]
    /\ recovery = [pc |-> "off"]
    /\ looper = [pc |-> "off"]
    /\ tester = [pc |-> "off"]
    /\ link = <<>>
    /\ notified = 0

ChunkerOthers == <<client, clientV2, uploader, flasher, validator, backoff, codec,
                   session, recovery, looper, tester, link, notified>>

\* one iteration of `while offset < len(transfer_data)` of DOTTClient.upload_gif
ChunkWhile ==
    /\ chunker.pc = "loop" /\ chunker.loop = "while"
    /\ chunker.offset < Len(chunker.P)
    /\ LET chunk == ClientChunk(chunker.P, chunker.offset, chunker.S)
       IN  chunker' = [chunker EXCEPT !.slices = Append(@, chunk),
                                      !.offset = @ + Len(chunk)]
    /\ UNCHANGED ChunkerOthers

\* one iteration of `for i in range(0, len(gif_data), chunk_size)` of
\* DOTTUploader.upload
ChunkRange ==
    /\ chunker.pc = "loop" /\ chunker.loop = "range"
    /\ chunker.offset < Len(chunker.P)
    /\ LET chunk == UploaderChunk(chunker.P, chunker.offset, chunker.S)
       IN  chunker' = [chunker EXCEPT !.slices = Append(@, chunk),
                                      !.offset = @ + chunker.S]
    /\ UNCHANGED ChunkerOthers

\* either loop ends
ChunkEnd ==
    /\ chunker.pc = "loop"
    /\ chunker.offset >= Len(chunker.P)
    /\ chunker' = [chunker EXCEPT !.pc = "done"]
    /\ UNCHANGED ChunkerOthers

NextChunker == ChunkWhile \/ ChunkRange \/ ChunkEnd

SpecChunker == InitChunker /\ [][NextChunker]_vars

---------------------------------------------------------------------------
(* Device notifications and their text *)

READY == <<255, 255, 255, 255>>
\* "Transfer Complete"
TransferComplete ==
    <<84, 114, 97, 110, 115, 102, 101, 114, 32, 67, 111, 109, 112, 108, 101, 116, 101>>
\* "ERROR: fail"
ErrorFail == <<69, 82, 82, 79, 82, 58, 32, 102, 97, 105, 108>>
\* "ok" followed by a NUL
OkNul == <<111, 107, 0>>
\* "COM", the byte 0xFF, "PLETE"
ComFFplete == <<67, 79, 77, 255, 80, 76, 69, 84, 69>>

\* what the device may notify
DeviceMessages == {READY, TransferComplete, ErrorFail, OkNul, ComFFplete}

\* "complete" and "fail"
complete == <<99, 111, 109, 112, 108, 101, 116, 101>>
fail == <<102, 97, 105, 108>>

\* data.decode('utf-8', errors='ignore') for data whose bytes are ASCII or
\* bytes that occur in no UTF-8 encoding (0xFF): the latter are dropped
DecodeIgnore(data) == SelectSeq(data, LAMBDA b : b < 128)

RECURSIVE StripLeft(_, _)
StripLeft(t, c) == IF t # <<>> /\ Head(t) = c THEN StripLeft(Tail(t), c) ELSE t
RECURSIVE StripRight(_, _)
StripRight(t, c) ==
    IF t # <<>> /\ t[Len(t)] = c THEN StripRight(SubSeq(t, 1, Len(t) - 1), c) ELSE t
\* t.strip(c)
Strip(t, c) == StripRight(StripLeft(t, c), c)

\* the mutant of Lower: the letters keep their case
LowerKeepsCase(t) == t

\* t.lower() for ASCII text
Lower(t) == [k \in 1..Len(t) |-> IF t[k] >= 65 /\ t[k] <= 90 THEN t[k] + 32 ELSE t[k]]

\* pat in t
Contains(pat, t) ==
    \E k \in 0..(Len(t) - Len(pat)) : SubSeq(t, k + 1, k + Len(pat)) = pat

---------------------------------------------------------------------------
(* dott_upload_correct.py *)

UUID_DATA == "1525"
UUID_TRIGGER == "1528"
UUID_1530 == "1530"

\* _notification_handler: the text kept with a notification
NotificationText(data) == Strip(DecodeIgnore(data), 0)

\* the mutant of IsIndication: three bytes are compared
IsIndicationShort(data) == data = <<255, 255, 255>>

\* _notification_handler: whether the notification is the indication
IsIndication(data) == data = READY

\* upload: mtu = self.client.mtu_size or 23
UploaderMtu(reported) ==
    IF reported.kind # "int" \/ reported.value = 0 THEN 23 ELSE reported.value

\* the mutant of UploaderChunkSize: no floor of 20 bytes
UploaderChunkSizeNoFloor(mtu) == mtu - 3

\* upload: chunk size
UploaderChunkSize(mtu) == IF mtu - 3 < 20 THEN 20 ELSE mtu - 3

\* the mutant of UploaderSuccess: a notification with "fail" cancels it
UploaderSuccessUnlessFail(notifications) ==
    /\ \E k \in 1..Len(notifications) : Contains(complete, Lower(notifications[k].text))
    /\ ~\E k \in 1..Len(notifications) : Contains(fail, Lower(notifications[k].text))

\* upload: success = any('complete' in t.lower() ...)
UploaderSuccess(notifications) ==
    \E k \in 1..Len(notifications) : Contains(complete, Lower(notifications[k].text))

\* upload: fail = any('fail' in t.lower() ...)
UploaderFail(notifications) ==
    \E k \in 1..Len(notifications) : Contains(fail, Lower(notifications[k].text))

\* the mutant of UploaderResult: silence is taken for success
UploaderResultOptimistic(notifications) ==
    IF UploaderFail(notifications) THEN "False" ELSE "True"

\* upload: the result for the notifications received
UploaderResult(notifications) ==
    IF UploaderSuccess(notifications) THEN "True"
    ELSE IF UploaderFail(notifications) THEN "False"
    ELSE "None"

\* what client.mtu_size may report to DOTTUploader
UploaderMtuReports == {MtuNone, MtuInt(10), MtuInt(23), MtuInt(25)}

\* the payloads handed to DOTTUploader.upload
UploaderPayloads ==
    { <<>>,
      GifFile(GIF89a, 64, 64, 6, TRAILER),      \* 20 bytes
      GifFile(GIF87a, 240, 1, 27, TRAILER) }    \* 41 bytes

\* DOTTUploader.__init__
InitUploader ==
    /\ uploader = [pc |-> "init", mtu |-> MtuNone, notifications |-> <<>>,
                   indication_received |-> FALSE, gif_data |-> <<>>,
                   chunk_size |-> 0, i |-> 0, ready |-> "no", result |-> "Pending"]
    /\ client = [pc |-> "off"]
    /\ clientV2 = [pc |-> "off"]
    /\ flasher = [pc |-> "off"]
    /\ chunker = [pc |-> "off"]
    /\ validator = [pc |-> "off"]
    /\ backoff = [pc |-> "off"]
    /\ codec = [pc |-> "off"]
    /\ session = [pc |-> "off"]
    /\ recovery = [pc |-> "off"]
    /\ looper = [pc |-> "off"]
    /\ tester = [pc |-> "off"]
    /\ link = <<>>
    /\ notified = 0

UploaderOthers == <<client, clientV2, flasher, chunker, validator, backoff, codec,
                    session, recovery, looper, tester>>

\* DOTTUploader.connect: the link's MTU; notifications are enabled
UploaderConnect ==
    /\ uploader.pc = "init"
    /\ \E reported \in UploaderMtuReports :
          uploader' = [uploader EXCEPT !.pc = "connected", !.mtu = reported]
    /\ UNCHANGED <<link, notified, UploaderOthers>>

\* _notification_handler, run by the loop while the coroutine is suspended
UploaderNotify ==
    /\ uploader.pc \notin {"off", "init", "done"}
    /\ notified < MaxNotifs
    /\ \E data \in DeviceMessages :
          uploader' = [uploader EXCEPT
              !.notifications =
                  Append(@, [data |-> data, text |-> NotificationText(data)]),
              !.indication_received = @ \/ IsIndication(data)]
    /\ notified' = notified + 1
    /\ UNCHANGED <<link, UploaderOthers>>

\* upload, up to the first write: both stores are cleared, the chunk size is set
UploaderBegin ==
    /\ uploader.pc = "connected"
    /\ \E gif_data \in UploaderPayloads :
          uploader' = [uploader EXCEPT
              !.pc = "pre1",
              !.gif_data = gif_data,
              !.notifications = <<>>,
              !.indication_received = FALSE,
              !.chunk_size = UploaderChunkSize(UploaderMtu(uploader.mtu))]
    /\ UNCHANGED <<link, notified, UploaderOthers>>

\* upload, step 0: 0xfc to 0x1530; a failure skips the second write
UploaderPre1 ==
    /\ uploader.pc = "pre1"
    /\ \E ok \in BOOLEAN :
          /\ link' = Append(link, WriteOp(UUID_1530, <<252>>, FALSE, ok))
          /\ uploader' = [uploader EXCEPT !.pc = IF ok THEN "pre2" ELSE "trigger"]
    /\ UNCHANGED <<notified, UploaderOthers>>

\* upload, step 0: 0x10 to 0x1530; a failure is swallowed
UploaderPre2 ==
    /\ uploader.pc = "pre2"
    /\ \E ok \in BOOLEAN :
          link' = Append(link, WriteOp(UUID_1530, <<16>>, FALSE, ok))
    /\ uploader' = [uploader EXCEPT !.pc = "trigger"]
    /\ UNCHANGED <<notified, UploaderOthers>>

\* upload, step 1: the file size to 0x1528, written with response
UploaderTrigger ==
    /\ uploader.pc = "trigger"
    /\ \E ok \in BOOLEAN :
          /\ link' = Append(link, WriteOp(UUID_TRIGGER,
                                          PackLE32(Len(uploader.gif_data)), TRUE, ok))
          /\ uploader' = [uploader EXCEPT !.pc = IF ok THEN "ready_wait" ELSE "trigger2"]
    /\ UNCHANGED <<notified, UploaderOthers>>

\* the mutant of UploaderTrigger2: the upload goes on after the second failure
UploaderTrigger2Continues ==
    /\ uploader.pc = "trigger2"
    /\ \E ok \in BOOLEAN :
          /\ link' = Append(link, WriteOp(UUID_TRIGGER,
                                          PackLE32(Len(uploader.gif_data)), FALSE, ok))
          /\ uploader' = [uploader EXCEPT !.pc = "ready_wait"]
    /\ UNCHANGED <<notified, UploaderOthers>>

\* upload, step 1: the same write without response; a second failure ends
\* the upload
UploaderTrigger2 ==
    /\ uploader.pc = "trigger2"
    /\ \E ok \in BOOLEAN :
          /\ link' = Append(link, WriteOp(UUID_TRIGGER,
                                          PackLE32(Len(uploader.gif_data)), FALSE, ok))
          /\ uploader' = IF ok THEN [uploader EXCEPT !.pc = "ready_wait"]
                         ELSE [uploader EXCEPT !.pc = "done", !.result = "False"]
    /\ UNCHANGED <<notified, UploaderOthers>>

\* upload, step 2: the wait returns because the event is set
UploaderReady ==
    /\ uploader.pc = "ready_wait"
    /\ uploader.indication_received
    /\ uploader' = [uploader EXCEPT !.pc = "stream", !.ready = "seen", !.i = 0]
    /\ UNCHANGED <<link, notified, UploaderOthers>>

\* the mutant of UploaderReadyTimeout: the timeout ends the upload
UploaderReadyTimeoutFails ==
    /\ uploader.pc = "ready_wait"
    /\ ~uploader.indication_received
    /\ uploader' = [uploader EXCEPT !.pc = "done", !.ready = "timeout",
                                    !.result = "False"]
    /\ UNCHANGED <<link, notified, UploaderOthers>>

\* upload, step 2: the wait times out after 5 s with the event not set
UploaderReadyTimeout ==
    /\ uploader.pc = "ready_wait"
    /\ ~uploader.indication_received
    /\ uploader' = [uploader EXCEPT !.pc = "stream", !.ready = "timeout", !.i = 0]
    /\ UNCHANGED <<link, notified, UploaderOthers>>

\* upload, step 3: one chunk is written; a failure ends the upload
UploaderStream ==
    /\ uploader.pc = "stream"
    /\ uploader.i < Len(uploader.gif_data)
    /\ \E ok \in BOOLEAN :
          /\ link' = Append(link, WriteOp(UUID_DATA,
                 UploaderChunk(uploader.gif_data, uploader.i, uploader.chunk_size),
                 FALSE, ok))
          /\ uploader' = IF ok THEN [uploader EXCEPT !.i = @ + uploader.chunk_size]
                         ELSE [uploader EXCEPT !.pc = "done", !.result = "False"]
    /\ UNCHANGED <<notified, UploaderOthers>>

\* upload, step 3: the loop is exhausted and the 5 s sleep of step 4 starts
UploaderStreamEnd ==
    /\ uploader.pc = "stream"
    /\ uploader.i >= Len(uploader.gif_data)
    /\ uploader' = [uploader EXCEPT !.pc = "completion"]
    /\ UNCHANGED <<link, notified, UploaderOthers>>

\* upload, step 4: the sleep is over, the notifications decide the result
UploaderComplete ==
    /\ uploader.pc = "completion"
    /\ uploader' = [uploader EXCEPT !.pc = "done",
                                    !.result = UploaderResult(uploader.notifications)]
    /\ UNCHANGED <<link, notified, UploaderOthers>>

NextUploader ==
    \/ UploaderConnect
    \/ UploaderNotify
    \/ UploaderBegin
    \/ UploaderPre1
    \/ UploaderPre2
    \/ UploaderTrigger
    \/ UploaderTrigger2
    \/ UploaderReady
    \/ UploaderReadyTimeout
    \/ UploaderStream
    \/ UploaderStreamEnd
    \/ UploaderComplete

SpecUploader == InitUploader /\ [][NextUploader]_vars

\* the steps of the coroutine, which the asyncio loop resumes after every
\* await: each await of upload is a write, a sleep or a wait with a timeout
UploaderSession ==
    \/ UploaderBegin
    \/ UploaderPre1
    \/ UploaderPre2
    \/ UploaderTrigger
    \/ UploaderTrigger2
    \/ UploaderReady
    \/ UploaderReadyTimeout
    \/ UploaderStream
    \/ UploaderStreamEnd
    \/ UploaderComplete

SpecUploaderLive == SpecUploader /\ WF_vars(UploaderSession)

---------------------------------------------------------------------------
(* dott_upload_v2.py *)

UUID_CONTROL == "1525"
UUID_DATA_V2 == "1529"

\* validate_gif(data) of dott_upload_v2.py: the pair (is_valid, reason)
validate_gif_v2(data) ==
    IF Len(data) < 13 THEN <<FALSE, "TooSmall">>
    ELSE IF Slice(data, 0, 6) \notin {GIF87a, GIF89a} THEN <<FALSE, "BadMagic">>
    ELSE LET width  == UnpackLE16(Slice(data, 6, 8))
             height == UnpackLE16(Slice(data, 8, 10))
         IN  IF width > 240 \/ height > 240 THEN <<FALSE, "TooLarge">>
             ELSE <<TRUE, "Valid">>

\* _notification_handler: whether transfer_complete is set; is_bytes is
\* isinstance(data, bytes)
V2SetsComplete(data, is_bytes) ==
    /\ Len(data) > 0
    /\ IF is_bytes THEN data[1] = 0 \/ Contains(complete, Lower(data)) ELSE FALSE

\* connect: self.client.mtu_size or 23
V2Mtu(reported) ==
    IF reported.kind # "int" \/ reported.value = 0 THEN 23 ELSE reported.value

\* upload_gif: chunk size
V2ChunkSize(mtu_size) == IF mtu_size - 3 < 20 THEN 20 ELSE mtu_size - 3

\* upload_gif: chunk = data[offset:offset + chunk_size]
V2Chunk(data, offset, chunk_size) == Slice(data, offset, offset + chunk_size)

\* the files handed to DOTTClientV2.upload_gif
V2Files ==
    { GifFile(GIF89a, 64, 64, 6, TRAILER),
      GifFile(GIF87a, 240, 1, 27, TRAILER),
      GifFile(GIF89a, 64, 64, 27, 0),
      GifFile(GIX89a, 64, 64, 27, TRAILER) }

\* DOTTClientV2.__init__
InitV2 ==
    /\ clientV2 = [pc |-> "init", mtu_size |-> 23, notifications |-> <<>>,
                   transfer_complete |-> FALSE, data |-> <<>>, chunk_size |-> 0,
                   offset |-> 0, bytes_sent |-> 0, chunk_num |-> 0,
                   result |-> "Pending"]
    /\ client = [pc |-> "off"]
    /\ uploader = [pc |-> "off"]
    /\ flasher = [pc |-> "off"]
    /\ chunker = [pc |-> "off"]
    /\ validator = [pc |-> "off"]
    /\ backoff = [pc |-> "off"]
    /\ codec = [pc |-> "off"]
    /\ session = [pc |-> "off"]
    /\ recovery = [pc |-> "off"]
    /\ looper = [pc |-> "off"]
    /\ tester = [pc |-> "off"]
    /\ link = <<>>
    /\ notified = 0

V2Others == <<client, uploader, flasher, chunker, validator, backoff, codec,
              session, recovery, looper, tester>>

\* DOTTClientV2.connect
V2Connect ==
    /\ clientV2.pc = "init"
    /\ \E reported \in UploaderMtuReports :
          clientV2' = [clientV2 EXCEPT !.pc = "connected", !.mtu_size = V2Mtu(reported)]
    /\ UNCHANGED <<link, notified, V2Others>>

\* _notification_handler, run by the loop while the coroutine is suspended
V2Notify ==
    /\ clientV2.pc \notin {"off", "init", "done"}
    /\ notified < MaxNotifs
    /\ \E data \in DeviceMessages, is_bytes \in BOOLEAN :
          clientV2' = [clientV2 EXCEPT
              !.notifications = Append(@, data),
              !.transfer_complete = @ \/ V2SetsComplete(data, is_bytes)]
    /\ notified' = notified + 1
    /\ UNCHANGED <<link, V2Others>>

\* upload_gif up to the first read_status: the file, its validation and the
\* chunk size
V2Begin ==
    /\ clientV2.pc = "connected"
    /\ \E data \in V2Files :
          clientV2' =
            IF ~validate_gif_v2(data)[1]
            THEN [clientV2 EXCEPT !.pc = "done", !.result = "False", !.data = data]
            ELSE [clientV2 EXCEPT !.pc = "status1", !.data = data,
                                  !.chunk_size = V2ChunkSize(clientV2.mtu_size)]
    /\ UNCHANGED <<link, notified, V2Others>>

\* read_status: three reads whose failures are swallowed; ok says that none failed
V2ReadStatus(from, to) ==
    /\ clientV2.pc = from
    /\ \E ok \in BOOLEAN : link' = Append(link, ReadOp("status", ok))
    /\ clientV2' = IF to = "done"
                   THEN [clientV2 EXCEPT !.pc = "done", !.result = "True"]
                   ELSE [clientV2 EXCEPT !.pc = to]
    /\ UNCHANGED <<notified, V2Others>>

\* upload_gif: the initial status
V2Status1 == V2ReadStatus("status1", "trigger")

\* upload_gif, step 1: the size header to 0x1525; a failure ends the upload
V2Trigger ==
    /\ clientV2.pc = "trigger"
    /\ \E ok \in BOOLEAN :
          /\ link' = Append(link, WriteOp(UUID_CONTROL,
                                          PackLE32(Len(clientV2.data)), FALSE, ok))
          /\ clientV2' = IF ok THEN [clientV2 EXCEPT !.pc = "status2"]
                         ELSE [clientV2 EXCEPT !.pc = "done", !.result = "False"]
    /\ UNCHANGED <<notified, V2Others>>

\* upload_gif: the status after the trigger, then the counters of step 2
V2Status2 ==
    /\ V2ReadStatus("status2", "stream")
    /\ clientV2'.offset = 0 /\ clientV2'.bytes_sent = 0 /\ clientV2'.chunk_num = 0

\* upload_gif, step 2: one chunk is written with response
V2Stream ==
    /\ clientV2.pc = "stream"
    /\ clientV2.offset < Len(clientV2.data)
    /\ LET chunk == V2Chunk(clientV2.data, clientV2.offset, clientV2.chunk_size)
       IN  \E ok \in BOOLEAN :
             /\ link' = Append(link, WriteOp(UUID_DATA_V2, chunk, TRUE, ok))
             /\ clientV2' =
                  IF ok
                  THEN [clientV2 EXCEPT !.chunk_num = @ + 1,
                                        !.bytes_sent = @ + Len(chunk),
                                        !.offset = @ + Len(chunk)]
                  ELSE [clientV2 EXCEPT !.chunk_num = @ + 1, !.pc = "stream_retry"]
    /\ UNCHANGED <<notified, V2Others>>

\* upload_gif, step 2: the failed chunk is written once more, without
\* response; a second failure ends the upload
V2StreamRetry ==
    /\ clientV2.pc = "stream_retry"
    /\ LET chunk == V2Chunk(clientV2.data, clientV2.offset, clientV2.chunk_size)
       IN  \E ok \in BOOLEAN :
             /\ link' = Append(link, WriteOp(UUID_DATA_V2, chunk, FALSE, ok))
             /\ clientV2' =
                  IF ok
                  THEN [clientV2 EXCEPT !.pc = "stream",
                                        !.bytes_sent = @ + Len(chunk),
                                        !.offset = @ + Len(chunk)]
                  ELSE [clientV2 EXCEPT !.pc = "done", !.result = "False"]
    /\ UNCHANGED <<notified, V2Others>>

\* upload_gif, step 2: the loop is exhausted and the 1 s sleep starts
V2StreamEnd ==
    /\ clientV2.pc = "stream"
    /\ clientV2.offset >= Len(clientV2.data)
    /\ clientV2' = [clientV2 EXCEPT !.pc = "status3"]
    /\ UNCHANGED <<link, notified, V2Others>>

\* upload_gif: the final status and the return
V2Status3 == V2ReadStatus("status3", "done")

NextV2 ==
    \/ V2Connect
    \/ V2Notify
    \/ V2Begin
    \/ V2Status1
    \/ V2Trigger
    \/ V2Status2
    \/ V2Stream
    \/ V2StreamRetry
    \/ V2StreamEnd
    \/ V2Status3

SpecV2 == InitV2 /\ [][NextV2]_vars

---------------------------------------------------------------------------
(* cbor2, for the items the tools and the modelled device exchange:         *)
(* integers, byte strings, text strings, and maps from text strings to     *)
(* those, with arguments of at most two bytes (RFC 8949).  A value is a    *)
(* record: t is its type, n an integer, b a byte or text string, m the     *)
(* (key, value) pairs of a map in order.                                   *)

CInt(n)   == [t |-> "int",   n |-> n, b |-> <<>>, m |-> <<>>]
CBytes(b) == [t |-> "bytes", n |-> 0, b |-> b,    m |-> <<>>]
CText(b)  == [t |-> "text",  n |-> 0, b |-> b,    m |-> <<>>]
CMap(m)   == [t |-> "map",   n |-> 0, b |-> <<>>, m |-> m]
\* Python's None
CNone     == [t |-> "None",  n |-> 0, b |-> <<>>, m |-> <<>>]

\* the initial byte of an item and its argument
CborHead(major, n) ==
    IF n < 24 THEN <<major * 32 + n>>
    ELSE IF n < 256 THEN <<major * 32 + 24, n>>
    ELSE <<major * 32 + 25, n \div 256, n % 256>>

\* the encoding of an integer, a byte string or a text string
CborItem(v) ==
    IF v.t = "int" THEN (IF v.n >= 0 THEN CborHead(0, v.n) ELSE CborHead(1, -1 - v.n))
    ELSE IF v.t = "bytes" THEN CborHead(2, Len(v.b)) \o v.b
    ELSE CborHead(3, Len(v.b)) \o v.b

RECURSIVE CborPairs(_)
CborPairs(m) ==
    IF m = <<>> THEN <<>>
    ELSE CborItem(Head(m)[1]) \o CborItem(Head(m)[2]) \o CborPairs(Tail(m))

\* cbor2.dumps(data) for a dict
CborDumps(data) == CborHead(5, Len(data.m)) \o CborPairs(data.m)

CborFail == [ok |-> FALSE, val |-> CNone, next |-> 0]

\* the item that starts at index pos (from 1) of bytes, if it is complete
CborScalarAt(bytes, pos) ==
    IF pos > Len(bytes) THEN CborFail
    ELSE LET major == bytes[pos] \div 32
             ai    == bytes[pos] % 32
             extra == IF ai < 24 THEN 0 ELSE IF ai = 24 THEN 1 ELSE IF ai = 25 THEN 2 ELSE 99
             arg   == IF ai < 24 THEN ai
                      ELSE IF ai = 24 THEN bytes[pos + 1]
                      ELSE bytes[pos + 1] * 256 + bytes[pos + 2]
             body  == pos + 1 + extra
         IN  IF ai > 25 \/ pos + extra > Len(bytes) THEN CborFail
             ELSE IF major = 0 THEN [ok |-> TRUE, val |-> CInt(arg), next |-> body]
             ELSE IF major = 1 THEN [ok |-> TRUE, val |-> CInt(-1 - arg), next |-> body]
             ELSE IF major \in {2, 3} THEN
                  IF body + arg - 1 > Len(bytes) THEN CborFail
                  ELSE [ok |-> TRUE,
                        val |-> IF major = 2 THEN CBytes(SubSeq(bytes, body, body + arg - 1))
                                ELSE CText(SubSeq(bytes, body, body + arg - 1)),
                        next |-> body + arg]
             ELSE IF major = 5 THEN [ok |-> TRUE, val |-> CMap(<<>>), next |-> body]
             ELSE CborFail

RECURSIVE CborPairsAt(_, _, _)
\* n (key, value) pairs from index pos
CborPairsAt(bytes, pos, n) ==
    IF n = 0 THEN [ok |-> TRUE, val |-> CMap(<<>>), next |-> pos]
    ELSE LET k == CborScalarAt(bytes, pos)
         IN  IF ~k.ok \/ k.val.t = "map" THEN CborFail
             ELSE LET v == CborScalarAt(bytes, k.next)
                  IN  IF ~v.ok \/ v.val.t = "map" THEN CborFail
                      ELSE LET rest == CborPairsAt(bytes, v.next, n - 1)
                           IN  IF ~rest.ok THEN CborFail
                               ELSE [ok |-> TRUE,
                                     val |-> CMap(<<<<k.val, v.val>>>> \o rest.val.m),
                                     next |-> rest.next]

\* cbor2.loads(payload): the first item of payload; ok is FALSE when it raises
CborLoads(payload) ==
    LET head == CborScalarAt(payload, 1)
    IN  IF ~head.ok THEN CborFail
        ELSE IF head.val.t # "map" THEN head
        ELSE LET ai == payload[1] % 32
                 n  == IF ai < 24 THEN ai
                       ELSE IF ai = 24 THEN payload[2]
                       ELSE payload[2] * 256 + payload[3]
             IN  CborPairsAt(payload, head.next, n)

RECURSIVE DictGet(_, _, _)
\* d.get(key, default) for a dict d: the last pair with the key decides
DictGet(m, key, default) ==
    IF m = <<>> THEN default
    ELSE IF m[Len(m)][1] = key THEN m[Len(m)][2]
    ELSE DictGet(SubSeq(m, 1, Len(m) - 1), key, default)

\* key in d
DictHas(m, key) == \E k \in 1..Len(m) : m[k][1] = key

\* the keys of the upload protocol
K_image == CText(<<105, 109, 97, 103, 101>>)
K_off   == CText(<<111, 102, 102>>)
K_data  == CText(<<100, 97, 116, 97>>)
K_len   == CText(<<108, 101, 110>>)
K_sha   == CText(<<115, 104, 97>>)
K_rc    == CText(<<114, 99>>)

---------------------------------------------------------------------------
(* dott_flash.py *)

UUID_SMP_CHAR == "smp"

SMPOp_WRITE == 2
SMPOp_WRITE_RSP == 3
SMPGroup_IMAGE == 1
SMPCmd_IMG_STATE == 0
SMPCmd_IMG_UPLOAD == 1

\* upload_firmware: chunk_size
FLASH_CHUNK_SIZE == 128

\* the mutant of SmpHeader: the 16-bit fields are little-endian
SmpHeaderLittleEndian(op, flags, length, group, seq, cmd_id) ==
    <<op, flags, length % 256, length \div 256, group % 256, group \div 256, seq, cmd_id>>

\* struct.pack('>BBHHBB', op, flags, length, group, seq, cmd_id)
SmpHeader(op, flags, length, group, seq, cmd_id) ==
    <<op, flags, length \div 256, length % 256, group \div 256, group % 256, seq, cmd_id>>

\* build_smp_packet(op, group, cmd_id, data, seq)
build_smp_packet(op, group, cmd_id, data, seq) ==
    LET payload == CborDumps(data)
    IN  SmpHeader(op, 0, Len(payload), group, seq, cmd_id) \o payload

\* the mutant of SmpNone: an empty dict in the place of the second None
SmpNoneEmptyDict ==
    [ok |-> FALSE, op |-> 0, group |-> 0, cmd |-> 0, seq |-> 0, result |-> CMap(<<>>)]

\* parse_smp_response: return None, None
SmpNone ==
    [ok |-> FALSE, op |-> 0, group |-> 0, cmd |-> 0, seq |-> 0, result |-> CNone]

\* the mutant of SmpUnpack: seq and cmd change places
SmpUnpackSwapped(data) ==
    [op |-> data[1], flags |-> data[2], length |-> data[3] * 256 + data[4],
     group |-> data[5] * 256 + data[6], seq |-> data[8], cmd |-> data[7]]

\* parse_smp_response: struct.unpack('>BBHHBB', data[:8])
SmpUnpack(data) ==
    [op |-> data[1], flags |-> data[2], length |-> data[3] * 256 + data[4],
     group |-> data[5] * 256 + data[6], seq |-> data[7], cmd |-> data[8]]

\* the mutant of SmpPayloadResult: no fallback to the payload bytes
SmpPayloadResultNoFallback(payload) ==
    LET loaded == CborLoads(payload)
    IN  IF payload = <<>> THEN CMap(<<>>)
        ELSE IF loaded.ok THEN loaded.val
        ELSE CNone

\* parse_smp_response: result = cbor2.loads(payload) if payload else {},
\* and the payload itself when that raises
SmpPayloadResult(payload) ==
    LET loaded == CborLoads(payload)
    IN  IF payload = <<>> THEN CMap(<<>>)
        ELSE IF loaded.ok THEN loaded.val
        ELSE CBytes(payload)

\* parse_smp_response(data): ok is FALSE for (None, None); otherwise the
\* header fields and the result, which is the decoded payload, {} for an
\* empty payload, and the payload bytes when decoding raises
parse_smp_response(data) ==
    IF Len(data) < 8 THEN SmpNone
    ELSE LET header  == SmpUnpack(data)
             payload == Slice(data, 8, 8 + header.length)
         IN  [ok |-> TRUE, op |-> header.op, group |-> header.group,
              cmd |-> header.cmd, seq |-> header.seq,
              result |-> SmpPayloadResult(payload)]

\* the mutant of NextSeq: no wrap
NextSeqNoWrap(seq) == seq + 1

\* smp_command: the sequence number of the next command
NextSeq(seq) == (seq + 1) % 256

\* smp_command: what is returned for the response taken from the queue
SmpResult(response) == parse_smp_response(response).result

\* hashlib.sha256(data).digest(), which the model does not compute: 32 bytes
\* that depend on the data
Sha256(data) == [k \in 1..32 |-> (Len(data) + k) % 256]

\* the mutant of UploadRequest: len and sha in every request
UploadRequestWithTotals(firmware_data, offset, chunk) ==
    CMap(<< <<K_image, CInt(0)>>, <<K_off, CInt(offset)>>, <<K_data, CBytes(chunk)>>,
            <<K_len, CInt(Len(firmware_data))>>,
            <<K_sha, CBytes(Sha256(firmware_data))>> >>)

\* upload_firmware: the upload request for the chunk at offset
UploadRequest(firmware_data, offset, chunk) ==
    CMap(<< <<K_image, CInt(0)>>, <<K_off, CInt(offset)>>, <<K_data, CBytes(chunk)>> >>
         \o IF offset = 0
            THEN << <<K_len, CInt(Len(firmware_data))>>,
                    <<K_sha, CBytes(Sha256(firmware_data))>> >>
            ELSE <<>>)

\* upload_firmware: chunk = firmware_data[offset:offset + chunk_size]
FlashChunk(firmware_data, offset) == Slice(firmware_data, offset, offset + FLASH_CHUNK_SIZE)

\* the mutant of ResultRc: a missing rc counts as 0
ResultRcDefaultsToZero(result) == DictGet(result.m, K_rc, CInt(0))

\* upload_firmware: rc = result.get('rc', -1)
ResultRc(result) == DictGet(result.m, K_rc, CInt(-1))

\* the mutant of Rejected: only a negative rc is a rejection
RejectedNegative(rc) == rc.t = "int" /\ rc.n < 0

\* upload_firmware: rc != 0
Rejected(rc) == ~(rc.t = "int" /\ rc.n = 0)

\* the mutant of NextOff: linear progress, whatever the device reports
NextOffLocal(result, offset, chunk) == CInt(offset + Len(chunk))

\* upload_firmware: next_off = result.get('off', offset + len(chunk))
NextOff(result, offset, chunk) == DictGet(result.m, K_off, CInt(offset + Len(chunk)))

\* a firmware image of n bytes
Firmware(n) == [k \in 1..n |-> k % 251]

\* the images handed to upload_firmware
Firmwares == {Firmware(0), Firmware(128), Firmware(300)}

\* a response of the device to an image upload, with the body given
Response(seq, body) ==
    SmpHeader(SMPOp_WRITE_RSP, 0, Len(body), SMPGroup_IMAGE, seq, SMPCmd_IMG_UPLOAD) \o body

\* the bodies of the device's responses: rc and off in the combinations the
\* code tells apart, a body that is no map, one that cannot be decoded, and none
ResponseBodies ==
    { CborDumps(CMap(<< <<K_rc, CInt(0)>>, <<K_off, CInt(off)>> >>)) : off \in {0, 128, 300} }
    \cup { CborDumps(CMap(<< <<K_rc, CInt(0)>> >>)),
           CborDumps(CMap(<< <<K_rc, CInt(3)>>, <<K_off, CInt(128)>> >>)),
           CborDumps(CMap(<< <<K_off, CInt(128)>> >>)),
           CborItem(CInt(0)),
           <<161, 98, 114>>,
           <<>> }

\* what the device may notify while the session's sequence number is seq: a
\* response that echoes it, one that carries the previous number, or a
\* notification too short to hold a header
DeviceResponses(seq) ==
    { Response(seq, body) : body \in ResponseBodies }
    \cup { Response((seq + 255) % 256, body) :
             body \in { CborDumps(CMap(<< <<K_rc, CInt(0)>>, <<K_off, CInt(128)>> >>)) } }
    \cup { <<SMPOp_WRITE_RSP, 0, 0>> }

\* DOTTFlasher.__init__.  answers is history: how the wait of each command
\* ended (the command's sequence number, the header of the response taken
\* from the queue, the result returned)
InitFlasher ==
    /\ flasher = [pc |-> "init", seq |-> 0, responses |-> <<>>,
                  firmware_data |-> <<>>, total_size |-> 0, offset |-> 0,
                  chunk |-> <<>>, result |-> "Pending", answers |-> <<>>]
    /\ client = [pc |-> "off"]
    /\ clientV2 = [pc |-> "off"]
    /\ uploader = [pc |-> "off"]
    /\ chunker = [pc |-> "off"]
    /\ validator = [pc |-> "off"]
    /\ backoff = [pc |-> "off"]
    /\ codec = [pc |-> "off"]
    /\ session = [pc |-> "off"]
    /\ recovery = [pc |-> "off"]
    /\ looper = [pc |-> "off"]
    /\ tester = [pc |-> "off"]
    /\ link = <<>>
    /\ notified = 0

FlasherOthers == <<client, clientV2, uploader, chunker, validator, backoff, codec,
                   session, recovery, looper, tester>>

\* DOTTFlasher.connect: notifications are enabled
FlasherConnect ==
    /\ flasher.pc = "init"
    /\ flasher' = [flasher EXCEPT !.pc = "connected"]
    /\ UNCHANGED <<link, notified, FlasherOthers>>

\* _notification_handler, run by the loop while the coroutine is suspended
\* (a notification that arrives between connect and upload_firmware is in
\* the queue at the first pass of the loop, like one that arrives there)
FlasherNotify ==
    /\ flasher.pc \in {"loop", "waiting", "verifying"}
    /\ notified < MaxResponses
    /\ Len(flasher.responses) < MaxQueue
    /\ \E data \in DeviceResponses(flasher.seq) :
          flasher' = [flasher EXCEPT !.responses = Append(@, data)]
    /\ notified' = notified + 1
    /\ UNCHANGED <<link, FlasherOthers>>

\* upload_firmware, up to the loop: the image is read
FlasherBegin ==
    /\ flasher.pc = "connected"
    /\ \E firmware_data \in Firmwares :
          flasher' = [flasher EXCEPT !.pc = "loop",
                                     !.firmware_data = firmware_data,
                                     !.total_size = Len(firmware_data),
                                     !.offset = 0]
    /\ UNCHANGED <<link, notified, FlasherOthers>>

\* the mutant of SmpSend: the response is not waited for
SmpSendNoWait(fl, group, cmd, data, ok, waiting) ==
    LET seq    == NextSeq(fl.seq)
        packet == build_smp_packet(SMPOp_WRITE, group, cmd, data, seq)
    IN  /\ link' = Append(link, WriteOp(UUID_SMP_CHAR, packet, FALSE, ok))
        /\ flasher' = [fl EXCEPT
               !.seq = seq,
               !.pc = IF ok THEN "loop" ELSE "done",
               !.result = IF ok THEN @ ELSE "Raised"]

\* smp_command up to the wait: the next sequence number, the packet and its
\* write, which raises out of the coroutine when it fails
SmpSend(fl, group, cmd, data, ok, waiting) ==
    LET seq    == NextSeq(fl.seq)
        packet == build_smp_packet(SMPOp_WRITE, group, cmd, data, seq)
    IN  /\ link' = Append(link, WriteOp(UUID_SMP_CHAR, packet, FALSE, ok))
        /\ flasher' = [fl EXCEPT
               !.seq = seq,
               !.pc = IF ok THEN waiting ELSE "done",
               !.result = IF ok THEN @ ELSE "Raised"]

\* upload_firmware: the loop continues, and the request for the chunk at
\* offset is sent
FlasherSend ==
    /\ flasher.pc = "loop"
    /\ flasher.offset < flasher.total_size
    /\ LET chunk == FlashChunk(flasher.firmware_data, flasher.offset)
           req   == UploadRequest(flasher.firmware_data, flasher.offset, chunk)
       IN  \E ok \in BOOLEAN :
              SmpSend([flasher EXCEPT !.chunk = chunk],
                      SMPGroup_IMAGE, SMPCmd_IMG_UPLOAD, req, ok, "waiting")
    /\ UNCHANGED <<notified, FlasherOthers>>

\* the mutant of NoResponse: the chunk is sent again
NoResponseRetries(fl) == [fl EXCEPT !.pc = "loop"]

\* upload_firmware: result is None
NoResponse(fl) == [fl EXCEPT !.pc = "done", !.result = "False"]

\* upload_firmware: what follows the result of smp_command for a chunk
AfterChunk(fl, result) ==
    IF result.t = "None" THEN NoResponse(fl)
    ELSE IF result.t # "map" THEN [fl EXCEPT !.pc = "done", !.result = "Raised"]
    ELSE IF Rejected(ResultRc(result)) THEN [fl EXCEPT !.pc = "done", !.result = "False"]
    ELSE LET next_off == NextOff(result, fl.offset, fl.chunk)
         IN  IF next_off.t # "int" THEN [fl EXCEPT !.pc = "done", !.result = "Raised"]
             ELSE [fl EXCEPT !.pc = "loop", !.offset = next_off.n]

\* smp_command: the wait ends with the response at the head of the queue
FlasherReceive ==
    /\ flasher.pc = "waiting"
    /\ flasher.responses # <<>>
    /\ LET response == Head(flasher.responses)
           header   == parse_smp_response(response)
           result   == SmpResult(response)
       IN  flasher' = AfterChunk(
               [flasher EXCEPT
                   !.responses = Tail(@),
                   !.answers = Append(@, [seq |-> flasher.seq, got |-> "response",
                                          parsed |-> header.ok, rseq |-> header.seq,
                                          result |-> result])],
               result)
    /\ UNCHANGED <<link, notified, FlasherOthers>>

\* the mutant of FlasherTimeout: the wait has no timeout
FlasherWaitsForever == FALSE /\ UNCHANGED vars

\* smp_command: the wait times out on the empty queue and returns None
FlasherTimeout ==
    /\ flasher.pc = "waiting"
    /\ flasher.responses = <<>>
    /\ flasher' = AfterChunk(
           [flasher EXCEPT
               !.answers = Append(@, [seq |-> flasher.seq, got |-> "timeout",
                                      parsed |-> FALSE, rseq |-> 0,
                                      result |-> CNone])],
           CNone)
    /\ UNCHANGED <<link, notified, FlasherOthers>>

\* upload_firmware: the loop is over; get_image_state is sent
FlasherVerify ==
    /\ flasher.pc = "loop"
    /\ flasher.offset >= flasher.total_size
    /\ \E ok \in BOOLEAN :
          SmpSend(flasher, SMPGroup_IMAGE, SMPCmd_IMG_STATE, CMap(<<>>), ok, "verifying")
    /\ UNCHANGED <<notified, FlasherOthers>>

\* upload_firmware: get_image_state returns a response, which is printed,
\* and the upload returns True
FlasherVerified ==
    /\ flasher.pc = "verifying"
    /\ flasher.responses # <<>>
    /\ LET response == Head(flasher.responses)
           header   == parse_smp_response(response)
       IN  flasher' = [flasher EXCEPT
               !.responses = Tail(@),
               !.answers = Append(@, [seq |-> flasher.seq, got |-> "response",
                                      parsed |-> header.ok, rseq |-> header.seq,
                                      result |-> SmpResult(response)]),
               !.pc = "done", !.result = "True"]
    /\ UNCHANGED <<link, notified, FlasherOthers>>

\* upload_firmware: get_image_state times out, and the upload returns True
FlasherVerifyTimeout ==
    /\ flasher.pc = "verifying"
    /\ flasher.responses = <<>>
    /\ flasher' = [flasher EXCEPT
           !.answers = Append(@, [seq |-> flasher.seq, got |-> "timeout",
                                  parsed |-> FALSE, rseq |-> 0, result |-> CNone]),
           !.pc = "done", !.result = "True"]
    /\ UNCHANGED <<link, notified, FlasherOthers>>

NextFlasher ==
    \/ FlasherConnect
    \/ FlasherNotify
    \/ FlasherBegin
    \/ FlasherSend
    \/ FlasherReceive
    \/ FlasherTimeout
    \/ FlasherVerify
    \/ FlasherVerified
    \/ FlasherVerifyTimeout

SpecFlasher == InitFlasher /\ [][NextFlasher]_vars

---------------------------------------------------------------------------
(* smp_command alone: one DOTTFlasher session in which get_image_state and  *)
(* reset are called again and again, so that the sequence number goes       *)
(* round.  The session keeps the packet of the newest command and how the   *)
(* wait of the newest finished command ended, in the place of the link log. *)

SMPGroup_OS == 0
SMPCmd_OS_RESET == 5

\* the commands of the session: get_image_state() and reset()
SessionCommands ==
    { [group |-> SMPGroup_IMAGE, cmd |-> SMPCmd_IMG_STATE],
      [group |-> SMPGroup_OS, cmd |-> SMPCmd_OS_RESET] }

\* what the device may notify: a response that echoes the sequence number,
\* and notifications of 0, 3 and 7 bytes
SessionResponses(seq) ==
    { SmpHeader(SMPOp_WRITE_RSP, 0, 4, SMPGroup_IMAGE, seq, SMPCmd_IMG_STATE)
         \o CborDumps(CMap(<< <<K_rc, CInt(0)>> >>)),
      <<>>,
      <<SMPOp_WRITE_RSP, 0, 0>>,
      <<SMPOp_WRITE_RSP, 0, 0, 4, 0, SMPGroup_IMAGE, 0>> }

\* DOTTFlasher.__init__ and connect.  ended is how the wait of the newest
\* finished command ended, taken the response it took from the queue, parsed
\* what parse_smp_response made of it, returned what smp_command returned.
InitSession ==
    /\ session = [pc |-> "idle", seq |-> 0, responses |-> <<>>, packet |-> <<>>,
                  ended |-> "none", taken |-> <<>>, parsed |-> SmpNone,
                  returned |-> CNone]
    /\ client = [pc |-> "off"]
    /\ clientV2 = [pc |-> "off"]
    /\ uploader = [pc |-> "off"]
    /\ flasher = [pc |-> "off"]
    /\ chunker = [pc |-> "off"]
    /\ validator = [pc |-> "off"]
    /\ backoff = [pc |-> "off"]
    /\ codec = [pc |-> "off"]
    /\ recovery = [pc |-> "off"]
    /\ looper = [pc |-> "off"]
    /\ tester = [pc |-> "off"]
    /\ link = <<>>
    /\ notified = 0

SessionOthers == <<client, clientV2, uploader, flasher, chunker, validator, backoff,
                   codec, recovery, looper, tester, link, notified>>

\* _notification_handler, run by the loop while the coroutine is suspended
SessionNotify ==
    /\ session.pc \in {"idle", "waiting"}
    /\ Len(session.responses) < MaxQueue
    /\ \E data \in SessionResponses(session.seq) :
          session' = [session EXCEPT !.responses = Append(@, data)]
    /\ UNCHANGED SessionOthers

\* smp_command up to the wait: the next sequence number, the packet and its
\* write, which raises out of smp_command when it fails
SessionCommand ==
    /\ session.pc = "idle"
    /\ \E c \in SessionCommands, ok \in BOOLEAN :
          LET seq == NextSeq(session.seq)
          IN  session' = [session EXCEPT
                  !.seq = seq,
                  !.packet = build_smp_packet(SMPOp_WRITE, c.group, c.cmd, CMap(<<>>), seq),
                  !.pc = IF ok THEN "waiting" ELSE "raised"]
    /\ UNCHANGED SessionOthers

\* smp_command: the wait ends with the response at the head of the queue
SessionReceive ==
    /\ session.pc = "waiting"
    /\ session.responses # <<>>
    /\ LET response == Head(session.responses)
       IN  session' = [session EXCEPT
               !.responses = Tail(@),
               !.pc = "idle",
               !.ended = "response",
               !.taken = response,
               !.parsed = parse_smp_response(response),
               !.returned = SmpResult(response)]
    /\ UNCHANGED SessionOthers

\* smp_command: the wait times out on the empty queue and returns None
SessionTimeout ==
    /\ session.pc = "waiting"
    /\ session.responses = <<>>
    /\ session' = [session EXCEPT !.pc = "idle", !.ended = "timeout",
                                  !.taken = <<>>, !.parsed = SmpNone,
                                  !.returned = CNone]
    /\ UNCHANGED SessionOthers



NextSession ==
    \/ SessionNotify
    \/ SessionCommand
    \/ SessionReceive
    \/ SessionTimeout

SpecSession == InitSession /\ [][NextSession]_vars

---------------------------------------------------------------------------
(* build_smp_packet and parse_smp_response alone: a packet is built from    *)
(* arguments and parsed back, or a packet of the device is parsed            *)

\* the arguments of build_smp_packet: bytes for op, seq and cmd_id, 16 bits
\* for group
CodecOps    == {SMPOp_WRITE, SMPOp_WRITE_RSP, 255}
CodecGroups == {SMPGroup_OS, SMPGroup_IMAGE, 256, 65535}
CodecCmds   == {SMPCmd_IMG_STATE, SMPCmd_IMG_UPLOAD, SMPCmd_OS_RESET}
CodecSeqs   == {0, 1, 255}

\* the dicts to encode: {}, a response, the first upload request of an
\* image, a two-byte and a negative integer, and a payload over 255 bytes
CodecFields ==
    { CMap(<<>>),
      CMap(<< <<K_rc, CInt(0)>> >>),
      UploadRequest(Firmware(300), 0, FlashChunk(Firmware(300), 0)),
      CMap(<< <<K_off, CInt(300)>>, <<K_rc, CInt(-1)>> >>),
      CMap(<< <<K_data, CBytes(Firmware(300))>> >>) }

\* a packet of the device: a header that declares length bytes, and a body
Received(length, body) ==
    SmpHeader(SMPOp_WRITE_RSP, 0, length, SMPGroup_IMAGE, 7, SMPCmd_IMG_UPLOAD) \o body

\* bodies: {"rc": 0}, the same cut after 3 and after 2 bytes, a break code,
\* the integer 0, and none
BodyRc0    == <<161, 98, 114, 99, 0>>
BodyCut3   == <<161, 98, 114>>
BodyCut2   == <<161, 98>>
BodyBreak  == <<255>>
BodyInt0   == <<0>>

\* the packets of the device: bodies as long as declared, longer and
\* shorter, and packets too short for a header
ReceivedPackets ==
    { Received(Len(body), body) :
         body \in {BodyRc0, BodyCut3, BodyCut2, BodyBreak, BodyInt0, <<>>} }
    \cup { Received(6, BodyRc0), Received(300, BodyRc0), Received(5, <<>>),
           Received(5, BodyCut3), Received(2, BodyRc0), Received(1, BodyRc0) }
    \cup { <<>>, <<SMPOp_WRITE_RSP, 0, 0>>,
           <<SMPOp_WRITE_RSP, 0, 0, 5, 0, SMPGroup_IMAGE, 7>> }

CodecNoArgs == [op |-> 0, group |-> 0, cmd_id |-> 0, data |-> CMap(<<>>), seq |-> 0]

\* either the arguments of a packet to build, or a packet from the device
InitCodec ==
    /\ \/ \E op \in CodecOps, group \in CodecGroups, cmd_id \in CodecCmds,
             data \in CodecFields, seq \in CodecSeqs :
             codec = [pc |-> "args", origin |-> "built",
                      args |-> [op |-> op, group |-> group, cmd_id |-> cmd_id,
                                data |-> data, seq |-> seq],
                      packet |-> <<>>, parsed |-> SmpNone]
       \/ \E packet \in ReceivedPackets :
             codec = [pc |-> "packet", origin |-> "received", args |-> CodecNoArgs,
                      packet |-> packet, parsed |-> SmpNone]
    /\ client = [pc |-> "off"]
    /\ clientV2 = [pc |-> "off"]
    /\ uploader = [pc |-> "off"]
    /\ flasher = [pc |-> "off"]
    /\ chunker = [pc |-> "off"]
    /\ validator = [pc |-> "off"]
    /\ backoff = [pc |-> "off"]
    /\ session = [pc |-> "off"]
    /\ recovery = [pc |-> "off"]
    /\ looper = [pc |-> "off"]
    /\ tester = [pc |-> "off"]
    /\ link = <<>>
    /\ notified = 0

CodecOthers == <<client, clientV2, uploader, flasher, chunker, validator, backoff,
                 session, recovery, looper, tester, link, notified>>

\* packet = build_smp_packet(op, group, cmd_id, data, seq)
CodecBuild ==
    /\ codec.pc = "args"
    /\ codec' = [codec EXCEPT
           !.pc = "packet",
           !.packet = build_smp_packet(codec.args.op, codec.args.group,
                                       codec.args.cmd_id, codec.args.data,
                                       codec.args.seq)]
    /\ UNCHANGED CodecOthers

\* header, result = parse_smp_response(packet)
CodecParse ==
    /\ codec.pc = "packet"
    /\ codec' = [codec EXCEPT !.pc = "parsed",
                              !.parsed = parse_smp_response(codec.packet)]
    /\ UNCHANGED CodecOthers

NextCodec == CodecBuild \/ CodecParse

SpecCodec == InitCodec /\ [][NextCodec]_vars

---------------------------------------------------------------------------
(* The validators alone: validate_gif of dott_upload.py and of              *)
(* dott_upload_v2.py, validate_gif_frames of dott_upload_correct.py          *)

\* most blocks between the header and the trailer of a generated file
MaxBlocks == 2

RECURSIVE SkipSubBlocks(_, _)
\* validate_gif_frames: while pos < len(data) and data[pos] != 0:
\*                          pos += data[pos] + 1
SkipSubBlocks(data, pos) ==
    IF pos < Len(data) /\ data[pos + 1] # 0
    THEN SkipSubBlocks(data, pos + data[pos + 1] + 1)
    ELSE pos

\* validate_gif_frames: the bytes of a colour table, when the flags have one
ColorTable(flags) == IF flags >= 128 THEN 3 * 2^((flags % 8) + 1) ELSE 0

RECURSIVE FrameWalk(_, _, _)
\* validate_gif_frames: the block loop from pos on; raised is TRUE when an
\* index at or past the end of data is read (IndexError)
FrameWalk(data, pos, frames) ==
    IF ~(pos < Len(data) - 1) THEN [raised |-> FALSE, frames |-> frames]
    ELSE IF data[pos + 1] = 33 THEN
         IF data[pos + 2] = 249 THEN FrameWalk(data, pos + 8, frames)
         ELSE FrameWalk(data, SkipSubBlocks(data, pos + 2) + 1, frames)
    ELSE IF data[pos + 1] = 44 THEN
         IF pos + 8 >= Len(data) THEN [raised |-> TRUE, frames |-> frames]
         ELSE LET fw == data[pos + 6] + 256 * data[pos + 7]
                  fh == data[pos + 8] + 256 * data[pos + 9]
              IN  IF pos + 9 >= Len(data)
                  THEN [raised |-> TRUE, frames |-> Append(frames, <<fw, fh>>)]
                  ELSE FrameWalk(data,
                                 SkipSubBlocks(data, pos + 10
                                                       + ColorTable(data[pos + 10]) + 1) + 1,
                                 Append(frames, <<fw, fh>>))
    ELSE IF data[pos + 1] = 59 THEN [raised |-> FALSE, frames |-> frames]
    ELSE FrameWalk(data, pos + 1, frames)

\* the mutant of PartialFrames: the frames are counted from 1
PartialFramesFromOne(frames, width, height) ==
    SelectSeq([i \in 1..Len(frames) |-> <<i, frames[i]>>],
              LAMBDA e : e[2] # <<width, height>>)

\* validate_gif_frames: [(i, f) for i, f in enumerate(frames) if f != (width, height)]
PartialFrames(frames, width, height) ==
    SelectSeq([i \in 1..Len(frames) |-> <<i - 1, frames[i]>>],
              LAMBDA e : e[2] # <<width, height>>)

\* a result of validate_gif_frames; tag stands for the message, reported for
\* the frames the message lists (partial_frames[:3])
FramesResult(raised, is_valid, tag, frames, partial) ==
    [raised |-> raised, is_valid |-> is_valid, tag |-> tag, frames |-> frames,
     partial |-> partial, reported |-> SubSeq(partial, 1, Min(3, Len(partial)))]

\* validate_gif_frames(data)
validate_gif_frames(data) ==
    IF Len(data) < 13 THEN FramesResult(FALSE, FALSE, "TooSmall", <<>>, <<>>)
    ELSE IF Slice(data, 0, 6) \notin {GIF87a, GIF89a}
    THEN FramesResult(FALSE, FALSE, "BadMagic", <<>>, <<>>)
    ELSE LET width  == data[7] + 256 * data[8]
             height == data[9] + 256 * data[10]
             walk   == FrameWalk(data, 13 + ColorTable(data[11]), <<>>)
             partial == PartialFrames(walk.frames, width, height)
         IN  IF walk.raised
             THEN FramesResult(TRUE, FALSE, "IndexError", walk.frames, <<>>)
             ELSE IF partial # <<>>
             THEN FramesResult(FALSE, FALSE, "Partial", walk.frames, partial)
             ELSE FramesResult(FALSE, TRUE, "Valid", walk.frames, <<>>)

\* a file of 13 bytes: signature, logical screen descriptor, and a last byte
ScreenFile(magic, w, h, flags, last) ==
    magic \o <<w % 256, w \div 256, h % 256, h \div 256>> \o <<flags, 0, last>>

\* files for the checks of size, signature, dimensions and trailer: 13, 14
\* and 20 bytes long, and their first 0, 5, 6 and 12 bytes
PlainFiles ==
    LET whole == { IF n = 0 THEN ScreenFile(magic, w, h, 0, last)
                   ELSE ScreenFile(magic, w, h, 0, 0) \o Filler(n - 1) \o <<last>> :
                     magic \in {GIF87a, GIF89a, GIX89a},
                     w \in {0, 1, 240, 241, 256}, h \in {0, 1, 240, 241, 256},
                     last \in {0, TRAILER}, n \in {0, 1, 7} }
    IN  whole \cup { SubSeq(ScreenFile(magic, 64, 64, 0, last), 1, n) :
                       magic \in {GIF87a, GIF89a, GIX89a}, last \in {0, TRAILER},
                       n \in {0, 5, 6, 12} }

\* the blocks of a generated file: an image with its descriptor (and a local
\* colour table when lct), a graphic control extension, a comment extension
Block(kind, w, h, lct) == [kind |-> kind, w |-> w, h |-> h, lct |-> lct]

Blocks ==
    { Block("image", 64, 48, FALSE), Block("image", 32, 48, FALSE),
      Block("image", 64, 300, FALSE), Block("image", 64, 48, TRUE),
      Block("gce", 0, 0, FALSE), Block("comment", 0, 0, FALSE) }

\* the bytes of a block
BlockBytes(b) ==
    IF b.kind = "gce" THEN <<33, 249, 4, 0, 0, 0, 0, 0>>
    ELSE IF b.kind = "comment" THEN <<33, 254, 1, 65, 0>>
    ELSE <<44, 0, 0, 0, 0, b.w % 256, b.w \div 256, b.h % 256, b.h \div 256>>
         \o (IF b.lct THEN <<128, 1, 2, 3, 4, 5, 6>> ELSE <<0>>)
         \o <<2, 2, 76, 1, 0>>

\* a file with a 64x48 canvas, a global colour table when gct, the blocks,
\* and the trailer
FrameFile(gct, blocks) ==
    (IF gct THEN ScreenFile(GIF89a, 64, 48, 128, 0) \o <<1, 2, 3, 4, 5, 6>>
     ELSE ScreenFile(GIF89a, 64, 48, 0, 0))
       \o Flatten([i \in 1..Len(blocks) |-> BlockBytes(blocks[i])]) \o <<TRAILER>>

FrameFiles == { FrameFile(gct, blocks) : gct \in BOOLEAN,
                                         blocks \in SeqsUpTo(Blocks, MaxBlocks) }

\* files that end inside a block: the first n bytes of an image or of an
\* extension, after the header or after a whole image
CutFiles ==
    LET head == ScreenFile(GIF89a, 64, 48, 0, 0)
        img  == BlockBytes(Block("image", 64, 48, FALSE))
    IN  { pre \o SubSeq(img, 1, n) \o last :
            pre \in {head, head \o img}, n \in {1, 2, 5, 8, 9, 10},
            last \in {<<>>, <<TRAILER>>} }
        \cup { head \o ext : ext \in {<<33>>, <<33, 249>>, <<33, 249, 4>>,
                                      <<33, 254>>, <<33, 254, 5, 1>>,
                                      <<33, 254, 1, 65>>} }

NotRun == <<FALSE, "NotRun">>

\* one payload, and the result of each validator once it has run
InitValidator ==
    /\ \E data \in PlainFiles \cup FrameFiles \cup CutFiles :
          validator = [pc |-> "loaded", data |-> data, gif |-> NotRun,
                       gif_v2 |-> NotRun,
                       frames |-> FramesResult(FALSE, FALSE, "NotRun", <<>>, <<>>)]
    /\ client = [pc |-> "off"]
    /\ clientV2 = [pc |-> "off"]
    /\ uploader = [pc |-> "off"]
    /\ flasher = [pc |-> "off"]
    /\ chunker = [pc |-> "off"]
    /\ backoff = [pc |-> "off"]
    /\ codec = [pc |-> "off"]
    /\ session = [pc |-> "off"]
    /\ recovery = [pc |-> "off"]
    /\ looper = [pc |-> "off"]
    /\ tester = [pc |-> "off"]
    /\ link = <<>>
    /\ notified = 0

ValidatorOthers == <<client, clientV2, uploader, flasher, chunker, backoff, codec,
                     session, recovery, looper, tester, link, notified>>

\* dott_upload.py: is_valid, message = validate_gif(data)
ValidateGif ==
    /\ validator.pc = "loaded" /\ validator.gif = NotRun
    /\ validator' = [validator EXCEPT !.gif = validate_gif(validator.data)]
    /\ UNCHANGED ValidatorOthers

\* dott_upload_v2.py: is_valid, message = validate_gif(data)
ValidateGifV2 ==
    /\ validator.pc = "loaded" /\ validator.gif_v2 = NotRun
    /\ validator' = [validator EXCEPT !.gif_v2 = validate_gif_v2(validator.data)]
    /\ UNCHANGED ValidatorOthers

\* dott_upload_correct.py: is_valid, msg = validate_gif_frames(gif_data)
ValidateGifFrames ==
    /\ validator.pc = "loaded" /\ validator.frames.tag = "NotRun"
    /\ validator' = [validator EXCEPT !.frames = validate_gif_frames(validator.data)]
    /\ UNCHANGED ValidatorOthers

NextValidator == ValidateGif \/ ValidateGifV2 \/ ValidateGifFrames

SpecValidator == InitValidator /\ [][NextValidator]_vars

---------------------------------------------------------------------------
(* _calculate_backoff alone, for retry counts beyond those _write_chunk     *)
(* passes to it (1..MAX_RETRIES - 1)                                        *)

\* the largest retry count
MaxRetryCount == 12

\* two retry counts; -1 stands for a delay not computed yet
InitBackoff ==
    /\ \E n \in 1..MaxRetryCount, m \in 1..MaxRetryCount :
          backoff = [pc |-> "args", n |-> n, m |-> m, delay_n |-> -1, delay_m |-> -1]
    /\ client = [pc |-> "off"]
    /\ clientV2 = [pc |-> "off"]
    /\ uploader = [pc |-> "off"]
    /\ flasher = [pc |-> "off"]
    /\ chunker = [pc |-> "off"]
    /\ validator = [pc |-> "off"]
    /\ codec = [pc |-> "off"]
    /\ session = [pc |-> "off"]
    /\ recovery = [pc |-> "off"]
    /\ looper = [pc |-> "off"]
    /\ tester = [pc |-> "off"]
    /\ link = <<>>
    /\ notified = 0

BackoffOthers == <<client, clientV2, uploader, flasher, chunker, validator, codec,
                   session, recovery, looper, tester, link, notified>>

\* delay = self._calculate_backoff(n)
BackoffFirst ==
    /\ backoff.pc = "args"
    /\ backoff' = [backoff EXCEPT !.pc = "first", !.delay_n = calculate_backoff(backoff.n)]
    /\ UNCHANGED BackoffOthers

\* delay = self._calculate_backoff(m)
BackoffSecond ==
    /\ backoff.pc = "first"
    /\ backoff' = [backoff EXCEPT !.pc = "both", !.delay_m = calculate_backoff(backoff.m)]
    /\ UNCHANGED BackoffOthers

NextBackoff == BackoffFirst \/ BackoffSecond

SpecBackoff == InitBackoff /\ [][NextBackoff]_vars

---------------------------------------------------------------------------
(* emergency_recovery.py: main scans, and calls quick_upload for every      *)
(* device of the scan whose name has "dott" in it                           *)

MAX_ATTEMPTS == 100

\* devices one scan may find
MaxDevices == 2

\* what a scan finds of a device: it has no name, a name without "dott" in
\* it, or a name with it
FoundNames == {"None", "Phone", "Dott"}

\* main: device.name and DEVICE_NAME.lower() in device.name.lower()
IsDottName(name) == name = "Dott"

\* what BleakScanner.discover may return
ScanResults == UNION { [1..n -> FoundNames] : n \in 0..MaxDevices }

\* how entering BleakClient(address, timeout=3.0) may end
ConnectOutcomes == {"timeout", "error", "not_connected", "connected"}

\* quick_upload: True only when the client connected, both characteristics
\* were found and both writes went through; every error is caught and gives
\* False
quick_upload(connect, found, trigger_ok, data_ok) ==
    IF connect # "connected" THEN FALSE
    ELSE IF ~found THEN FALSE
    ELSE trigger_ok /\ data_ok

\* the mutant of RoundsLeft: one round fewer
RoundsLeftButOne(attempt) == attempt < MAX_ATTEMPTS - 1

\* main: while attempt < MAX_ATTEMPTS
RoundsLeft(attempt) == attempt < MAX_ATTEMPTS

\* main, before its loop.  last is what the newest call of quick_upload
\* returned, called how many calls the newest round made
InitRecovery ==
    /\ recovery = [pc |-> "loop", attempt |-> 0, devices |-> <<>>,
                   last |-> "none", called |-> 0, outcome |-> "Pending"]
    /\ client = [pc |-> "off"]
    /\ clientV2 = [pc |-> "off"]
    /\ uploader = [pc |-> "off"]
    /\ flasher = [pc |-> "off"]
    /\ chunker = [pc |-> "off"]
    /\ validator = [pc |-> "off"]
    /\ backoff = [pc |-> "off"]
    /\ codec = [pc |-> "off"]
    /\ session = [pc |-> "off"]
    /\ looper = [pc |-> "off"]
    /\ tester = [pc |-> "off"]
    /\ link = <<>>
    /\ notified = 0

RecoveryOthers == <<client, clientV2, uploader, flasher, chunker, validator, backoff,
                    codec, session, looper, tester, link, notified>>

\* main: a round begins with a scan; a scan that raises ends the round
RecoveryScan ==
    /\ recovery.pc = "loop"
    /\ RoundsLeft(recovery.attempt)
    /\ \/ \E devices \in ScanResults :
             recovery' = [recovery EXCEPT !.attempt = @ + 1, !.called = 0,
                                          !.devices = devices, !.pc = "devices"]
       \/ recovery' = [recovery EXCEPT !.attempt = @ + 1, !.called = 0]
    /\ UNCHANGED RecoveryOthers

\* main: the next device of the scan; quick_upload is called if its name
\* fits, and main returns if quick_upload returned True
RecoveryDevice ==
    /\ recovery.pc = "devices"
    /\ recovery.devices # <<>>
    /\ IF ~IsDottName(Head(recovery.devices))
       THEN recovery' = [recovery EXCEPT !.devices = Tail(@)]
       ELSE \E connect \in ConnectOutcomes, found, trigger_ok, data_ok \in BOOLEAN :
               LET success == quick_upload(connect, found, trigger_ok, data_ok)
               IN  recovery' =
                      IF success
                      THEN [recovery EXCEPT !.last = "True", !.called = @ + 1,
                                            !.pc = "done", !.outcome = "Recovered"]
                      ELSE [recovery EXCEPT !.last = "False", !.called = @ + 1,
                                            !.devices = Tail(@)]
    /\ UNCHANGED RecoveryOthers

\* main: the devices of the scan are through, and the round ends
RecoveryRoundEnd ==
    /\ recovery.pc = "devices"
    /\ recovery.devices = <<>>
    /\ recovery' = [recovery EXCEPT !.pc = "loop"]
    /\ UNCHANGED RecoveryOthers

\* main: the loop is over, and main reports the failure
RecoveryGiveUp ==
    /\ recovery.pc = "loop"
    /\ ~RoundsLeft(recovery.attempt)
    /\ recovery' = [recovery EXCEPT !.pc = "done", !.outcome = "GaveUp"]
    /\ UNCHANGED RecoveryOthers

NextRecovery ==
    \/ RecoveryScan
    \/ RecoveryDevice
    \/ RecoveryRoundEnd
    \/ RecoveryGiveUp

SpecRecovery == InitRecovery /\ [][NextRecovery]_vars

---------------------------------------------------------------------------
(* The while loop of upload_firmware alone, with a device that may answer   *)
(* every request: what the loop keeps from one pass to the next is offset   *)
(* and the sequence number, so no history is kept here                      *)

\* upload_firmware, at its loop
InitLooper ==
    /\ \E firmware_data \in Firmwares :
          looper = [pc |-> "loop", firmware_data |-> firmware_data,
                    total_size |-> Len(firmware_data), offset |-> 0,
                    chunk |-> <<>>, seq |-> 0, result |-> "Pending"]
    /\ client = [pc |-> "off"]
    /\ clientV2 = [pc |-> "off"]
    /\ uploader = [pc |-> "off"]
    /\ flasher = [pc |-> "off"]
    /\ chunker = [pc |-> "off"]
    /\ validator = [pc |-> "off"]
    /\ backoff = [pc |-> "off"]
    /\ codec = [pc |-> "off"]
    /\ session = [pc |-> "off"]
    /\ recovery = [pc |-> "off"]
    /\ tester = [pc |-> "off"]
    /\ link = <<>>
    /\ notified = 0

LooperOthers == <<client, clientV2, uploader, flasher, chunker, validator, backoff,
                  codec, session, recovery, tester, link, notified>>

\* upload_firmware: the loop continues and the request for the chunk at
\* offset is written, which raises when the write fails
LoopSend ==
    /\ looper.pc = "loop"
    /\ looper.offset < looper.total_size
    /\ \E ok \in BOOLEAN :
          looper' = [looper EXCEPT
              !.chunk = FlashChunk(looper.firmware_data, looper.offset),
              !.seq = NextSeq(@),
              !.pc = IF ok THEN "waiting" ELSE "done",
              !.result = IF ok THEN @ ELSE "Raised"]
    /\ UNCHANGED LooperOthers

\* smp_command and what follows it: the wait ends on its timeout, or with a
\* response of the device
LoopAnswer ==
    /\ looper.pc = "waiting"
    /\ \/ looper' = AfterChunk(looper, CNone)
       \/ \E response \in DeviceResponses(looper.seq) :
             looper' = AfterChunk(looper, SmpResult(response))
    /\ UNCHANGED LooperOthers

\* upload_firmware: the loop is over; get_image_state is written
LoopVerify ==
    /\ looper.pc = "loop"
    /\ looper.offset >= looper.total_size
    /\ \E ok \in BOOLEAN :
          looper' = [looper EXCEPT
              !.seq = NextSeq(@),
              !.pc = IF ok THEN "verifying" ELSE "done",
              !.result = IF ok THEN @ ELSE "Raised"]
    /\ UNCHANGED LooperOthers

\* upload_firmware: get_image_state has returned, and the upload returns True
LoopVerified ==
    /\ looper.pc = "verifying"
    /\ looper' = [looper EXCEPT !.pc = "done", !.result = "True"]
    /\ UNCHANGED LooperOthers

NextLooper ==
    \/ LoopSend
    \/ LoopAnswer
    \/ LoopVerify
    \/ LoopVerified

\* the coroutine is resumed after every await, and every wait of smp_command
\* ends, with a response or on its timeout
SpecLooper == InitLooper /\ [][NextLooper]_vars /\ WF_vars(NextLooper)

---------------------------------------------------------------------------
(* dott_upload_v5.py: run_tests makes one attempt per method on one         *)
(* connection (dott_upload_v6.py does the same per size value).  A          *)
(* notification is kept with the attempt whose data made the device send    *)
(* it, which the program does not know.                                     *)

\* run_tests: the methods that are not commented out
NumMethods == 3

\* what the device notifies about an attempt
TestMessages == {TransferComplete, ErrorFail, OkNul}

\* test_upload: the result for the texts in self.notifications
TestResult(texts) ==
    IF \E k \in 1..Len(texts) : Contains(complete, Lower(texts[k])) THEN "True"
    ELSE IF \E k \in 1..Len(texts) : Contains(fail, Lower(texts[k])) THEN "False"
    ELSE "None"

\* the texts of the notifications kept
TextsOf(notifications) == [k \in 1..Len(notifications) |-> notifications[k].text]

\* DOTTUploader.__init__ and connect.  written is the attempts whose data
\* went out to the device.  results is history: for each attempt that has
\* ended, its result and the notifications it was decided on
InitTester ==
    /\ tester = [pc |-> "idle", method |-> 0, written |-> {},
                 notifications |-> <<>>, results |-> <<>>]
    /\ client = [pc |-> "off"]
    /\ clientV2 = [pc |-> "off"]
    /\ uploader = [pc |-> "off"]
    /\ flasher = [pc |-> "off"]
    /\ chunker = [pc |-> "off"]
    /\ validator = [pc |-> "off"]
    /\ backoff = [pc |-> "off"]
    /\ codec = [pc |-> "off"]
    /\ session = [pc |-> "off"]
    /\ recovery = [pc |-> "off"]
    /\ looper = [pc |-> "off"]
    /\ link = <<>>
    /\ notified = 0

TesterOthers == <<client, clientV2, uploader, flasher, chunker, validator, backoff,
                  codec, session, recovery, looper, link>>

\* _notify, run by the loop while the coroutine is suspended: the text is
\* appended.  The device sent the notification because of an attempt whose
\* data it has received, the current one or an earlier one
TesterNotify ==
    /\ tester.pc \in {"idle", "writing", "settle"}
    /\ notified < MaxNotifs
    /\ \E data \in TestMessages, cause \in tester.written :
          tester' = [tester EXCEPT
              !.notifications = Append(@, [text |-> DecodeIgnore(data), cause |-> cause])]
    /\ notified' = notified + 1
    /\ UNCHANGED TesterOthers

\* run_tests: the next method; test_upload clears the notifications
TesterBegin ==
    /\ tester.pc = "idle"
    /\ tester.method < NumMethods
    /\ tester' = [tester EXCEPT !.method = @ + 1,
                                !.notifications = <<>>, !.pc = "writing"]
    /\ UNCHANGED <<notified, TesterOthers>>

\* test_upload: write_func writes the data; an error is printed
TesterWrite ==
    /\ tester.pc = "writing"
    /\ \E ok \in BOOLEAN :
          tester' = [tester EXCEPT
              !.written = IF ok THEN @ \cup {tester.method} ELSE @,
              !.pc = "settle"]
    /\ UNCHANGED <<notified, TesterOthers>>

\* test_upload: after the sleep the notifications decide the result;
\* run_tests returns on True and goes on otherwise
TesterDecide ==
    /\ tester.pc = "settle"
    /\ LET result == TestResult(TextsOf(tester.notifications))
       IN  tester' = [tester EXCEPT
               !.results = Append(@, [result |-> result, seen |-> tester.notifications]),
               !.pc = IF result = "True" \/ tester.method = NumMethods
                      THEN "done" ELSE "idle"]
    /\ UNCHANGED <<notified, TesterOthers>>

NextTester ==
    \/ TesterNotify
    \/ TesterBegin
    \/ TesterWrite
    \/ TesterDecide

SpecTester == InitTester /\ [][NextTester]_vars

---------------------------------------------------------------------------
(* The whole *)

Init == InitClient \/ InitV2 \/ InitUploader \/ InitFlasher \/ InitChunker
           \/ InitValidator \/ InitBackoff \/ InitSession \/ InitCodec
           \/ InitRecovery \/ InitLooper \/ InitTester

Next == NextClient \/ NextV2 \/ NextUploader \/ NextFlasher \/ NextChunker
           \/ NextValidator \/ NextBackoff \/ NextSession \/ NextCodec
           \/ NextRecovery \/ NextLooper \/ NextTester

Spec == Init /\ [][Next]_vars

\* Every wait with a timeout: wait_for ends the wait of smp_command on an
\* empty queue when the timeout has passed, in the upload loop and in
\* get_image_state, and the waits of DOTTUploader.upload pass
SpecWaits == (InitFlasher \/ InitUploader)
                /\ [][NextFlasher \/ NextUploader]_vars
                /\ WF_vars(FlasherTimeout)
                /\ WF_vars(FlasherVerifyTimeout)
                /\ WF_vars(UploaderSession)

\* the three uploaders of images
SpecUploads == (InitClient \/ InitV2 \/ InitUploader)
                  /\ [][NextClient \/ NextV2 \/ NextUploader]_vars

---------------------------------------------------------------------------
(* Properties *)

\* the chunks of P for chunk size S, by position
ExpectedChunks(P, S) ==
    [k \in 1..CeilDiv(Len(P), S) |-> SubSeq(P, (k - 1) * S + 1, Min(k * S, Len(P)))]

IsPrefix(a, b) == Len(a) <= Len(b) /\ SubSeq(b, 1, Len(a)) = a

RECURSIVE SumLen(_)
SumLen(ss) == IF ss = <<>> THEN 0 ELSE Len(Head(ss)) + SumLen(Tail(ss))

IsFailedWrite(e) == e.op = "write" /\ ~e.ok

RECURSIVE TailFailures(_)
\* how many failed writes end the log
TailFailures(log) ==
    IF log # <<>> /\ IsFailedWrite(log[Len(log)])
    THEN 1 + TailFailures(SubSeq(log, 1, Len(log) - 1))
    ELSE 0

\* streaming has begun in DOTTClient.upload_gif
ClientStreaming == client.pc \in {"loop", "write", "final_read"}
                   \/ (client.pc = "done" /\ link # <<>>)

\* End-to-end scenario 1: 2365 bytes at MTU 247
Scenario1Chunks ==
    ClientStream(ClientTransferData(GifFile(GIF89a, 64, 64, 2351, TRAILER), FALSE), 0,
                 ClientChunkSize(ConnectMtu(MtuInt(247))))

\* C1: in DOTTClient.upload_gif with send_size_header=False the writes to
\* the transfer characteristic that completed are, at every moment, the
\* first chunks of the file in payload order, each once; they are all
\* ceil(N/S) of them when upload_gif returns True, which it does whenever no
\* chunk failed 5 times in a row; 2365 bytes at MTU 247 are 9 chunks of 244
\* bytes and one of 169.
C1_RawStreamWritesTheChunks ==
    /\ (client.pc # "off" /\ ClientStreaming /\ ~client.send_size_header) =>
         LET written == Written(UUID_DOTT_TRANSFER)
             chunks  == ExpectedChunks(client.data, client.chunk_size)
         IN  /\ IsPrefix(written, chunks)
             /\ client.result = "True" =>
                  /\ written = chunks
                  /\ Len(written) = CeilDiv(Len(client.data), client.chunk_size)
                  /\ Flatten(written) = client.data
             /\ (client.pc = "done" /\ TailFailures(link) < MAX_RETRIES) =>
                  client.result = "True"
    /\ Len(Scenario1Chunks) = 10
    /\ \A k \in 1..9 : Len(Scenario1Chunks[k]) = 244
    /\ Len(Scenario1Chunks[10]) = 169

\* C1's case: three chunks were written, one of them after a failed attempt,
\* and upload_gif returned True
C1_Witness ==
    /\ client.pc = "done" /\ client.result = "True" /\ ~client.send_size_header
    /\ Len(Written(UUID_DOTT_TRANSFER)) = 3
    /\ \E k \in 1..Len(link) : IsFailedWrite(link[k])

\* C2: the slices of either streaming loop are, in order, the pieces of P at
\* positions 0, S, 2S, ...: every slice has 1..S bytes, every slice but the
\* last has S, they concatenate to the part of P passed so far, and to P
\* when the loop ends; an empty P gives no slice.
C2_SlicesCoverPayloadOnce ==
    chunker.pc # "off" =>
      LET P  == chunker.P
          S  == chunker.S
          sl == chunker.slices
      IN  /\ \A k \in 1..Len(sl) :
                /\ Len(sl[k]) >= 1 /\ Len(sl[k]) <= S
                /\ k < Len(sl) => Len(sl[k]) = S
                /\ sl[k] = SubSeq(P, (k - 1) * S + 1, Min(k * S, Len(P)))
          /\ Flatten(sl) = SubSeq(P, 1, Min(chunker.offset, Len(P)))
          /\ chunker.pc = "done" =>
                /\ Flatten(sl) = P
                /\ Len(sl) = CeilDiv(Len(P), S)
                /\ (P = <<>> => sl = <<>>)

\* C2's case: a loop ended after a full slice and a shorter last one
C2_Witness ==
    /\ chunker.pc = "done"
    /\ Len(chunker.slices) = 2
    /\ Len(chunker.slices[1]) = chunker.S
    /\ Len(chunker.slices[2]) < chunker.S

\* C3: a chunk is attempted at most 5 times; when 5 attempts in a row have
\* failed, upload_gif has returned False, nothing was written after them,
\* offset and bytes_sent are the start of the failed chunk, which is the
\* data of the five attempts; and upload_gif returns False during streaming
\* for no other reason.
C3_FiveFailuresEndTheUpload ==
    client.pc # "off" =>
      LET fails == TailFailures(link)
          start == SumLen(Written(UUID_DOTT_TRANSFER))
      IN  /\ fails <= MAX_RETRIES
          /\ \A k \in 1..(Len(link) - MAX_RETRIES) :
                ~(\A j \in k..(k + MAX_RETRIES - 1) : IsFailedWrite(link[j]))
          /\ fails = MAX_RETRIES =>
                /\ client.pc = "done" /\ client.result = "False"
                /\ client.offset = start /\ client.bytes_sent = start
                /\ \A j \in (Len(link) - MAX_RETRIES + 1)..Len(link) :
                      link[j].data = SubSeq(client.transfer_data, start + 1,
                                            Min(start + client.chunk_size,
                                                Len(client.transfer_data)))
          /\ (client.pc = "done" /\ client.result = "False" /\ link # <<>>) =>
                fails = MAX_RETRIES

\* C3's case: the second chunk failed five times
C3_Witness ==
    /\ client.pc = "done" /\ client.result = "False"
    /\ TailFailures(link) = MAX_RETRIES
    /\ client.offset > 0

\* the commands DOTTFlasher wrote, as a receiver decodes them
Sent == [k \in 1..Len(link) |-> parse_smp_response(link[k].data)]

\* the fields of a decoded request
OffOf(req) == DictGet(req.result.m, K_off, CNone).n
BytesOf(req) == DictGet(req.result.m, K_data, CNone).b

IsUpload(k) == Sent[k].cmd = SMPCmd_IMG_UPLOAD
SentOff(k) == OffOf(Sent[k])

\* the answer to command k is a response that upload_firmware accepts
Accepted(k) ==
    /\ flasher.answers[k].result.t = "map"
    /\ LET rc == DictGet(flasher.answers[k].result.m, K_rc, CNone)
       IN  rc.t = "int" /\ rc.n = 0

ReportsOff(k) == \E j \in 1..Len(flasher.answers[k].result.m) :
                    flasher.answers[k].result.m[j][1] = K_off
ReportedOff(k) == DictGet(flasher.answers[k].result.m, K_off, CNone).n

\* the newest request and the one before it, with the response between them
NewestRequestFollows ==
    flasher.pc # "off" /\ link # <<>> =>
       LET n    == Len(link)
           next == Sent[n]
           off  == OffOf(next)
       IN  next.cmd = SMPCmd_IMG_UPLOAD =>
              /\ BytesOf(next) = SubSeq(flasher.firmware_data, off + 1,
                                        Min(off + FLASH_CHUNK_SIZE, flasher.total_size))
              /\ n > 1 =>
                    LET req == Sent[n - 1]
                    IN  /\ req.cmd = SMPCmd_IMG_UPLOAD /\ Accepted(n - 1)
                        /\ off = IF ReportsOff(n - 1) THEN ReportedOff(n - 1)
                                 ELSE OffOf(req) + Len(BytesOf(req))

\* requests and answers are only ever added, so that each request was once
\* the newest
HistoryGrows ==
    flasher.pc # "off" /\ flasher'.pc # "off" =>
       /\ IsPrefix(link, link')
       /\ IsPrefix(flasher.answers, flasher'.answers)

\* C4: the off of an upload request that follows another is the off the
\* device reported in its response to that one, be it lower, equal or
\* higher than the offset after the chunk just sent, and the offset after
\* that chunk only when the response carries no off; the data of every
\* request are the bytes of the image from its off on.
C4_NextOffsetIsTheDevices == [](NewestRequestFollows) /\ [][HistoryGrows]_vars

\* C4's case (end-to-end scenario 2): the response to the third chunk, sent
\* from 256, reports 128, and the fourth request is sent from 128
C4_Witness ==
    /\ flasher.pc = "waiting" /\ Len(link) = 4
    /\ SentOff(1) = 0 /\ SentOff(2) = 128 /\ SentOff(3) = 256
    /\ ReportsOff(3) /\ ReportedOff(3) = 128
    /\ SentOff(4) = 128

\* C5: the result smp_command returns for the command sent with sequence
\* number s was decoded from a notification whose header carries s.
C5_AnswerEchoesSequence ==
    flasher.pc # "off" =>
      \A k \in 1..Len(flasher.answers) :
         (flasher.answers[k].got = "response" /\ flasher.answers[k].parsed) =>
            flasher.answers[k].rseq = flasher.answers[k].seq

\* C6: once the response to an upload request carries a non-zero rc, that
\* request is the last command written, upload_firmware has returned False,
\* and offset is still the off of the rejected request.
C6_NonZeroRcIsFatal ==
    flasher.pc # "off" =>
      \A k \in 1..Len(flasher.answers) :
         LET res == flasher.answers[k].result
             rc  == DictGet(res.m, K_rc, CNone)
         IN  (res.t = "map" /\ rc.t = "int" /\ rc.n # 0 /\ IsUpload(k)) =>
                /\ k = Len(link)
                /\ flasher.pc = "done" /\ flasher.result = "False"
                /\ flasher.offset = SentOff(k)

\* C6's case: the second chunk was rejected with rc = 3
C6_Witness ==
    /\ flasher.pc = "done" /\ Len(flasher.answers) = 2
    /\ DictGet(flasher.answers[2].result.m, K_rc, CNone) = CInt(3)
    /\ SentOff(2) = 128

RECURSIVE TailTimeouts(_)
\* how many timeouts end the answers
TailTimeouts(answers) ==
    IF answers # <<>> /\ answers[Len(answers)].got = "timeout"
    THEN 1 + TailTimeouts(SubSeq(answers, 1, Len(answers) - 1))
    ELSE 0

\* the wait for the response to upload request k timed out
TimedOut(k) == flasher.answers[k].got = "timeout" /\ IsUpload(k)

Observed ==
    IF uploader.pc # "off"
    THEN [k \in 1..Len(uploader.notifications) |-> uploader.notifications[k].data]
    ELSE IF clientV2.pc # "off" THEN clientV2.notifications
    ELSE <<>>

\* the text of a notification has the word in it, in any letter case
SaysWord(data, word) ==
    LET text == SelectSeq(data, LAMBDA b : b < 128)
    IN  \E s \in 0..(Len(text) - Len(word)) :
           \A j \in 1..Len(word) : text[s + j] \in {word[j], word[j] - 32}

SawComplete == \E k \in 1..Len(Observed) : SaysWord(Observed[k], complete)
SawFail == \E k \in 1..Len(Observed) : SaysWord(Observed[k], fail)

\* what the running uploader has returned
Outcome ==
    IF client.pc # "off" THEN client.result
    ELSE IF clientV2.pc # "off" THEN clientV2.result
    ELSE IF uploader.pc # "off" THEN uploader.result
    ELSE "Pending"

\* DOTTUploader.upload has ended and its last write went through
UploaderWindowElapsed ==
    uploader.pc = "done" /\ link # <<>> /\ link[Len(link)].ok

C9_OutcomeFollowsNotifications ==
    uploader.pc # "off" =>
      /\ (UploaderWindowElapsed =>
            /\ uploader.result = IF SawComplete THEN "True"
                                 ELSE IF SawFail THEN "False" ELSE "None"
            /\ ((\E k \in 1..Len(Observed) : Observed[k] = TransferComplete) =>
                  uploader.result = "True")
            /\ ((\A k \in 1..Len(Observed) : Observed[k] \in {ErrorFail, READY}) =>
                  uploader.result = IF \A k \in 1..Len(Observed) : Observed[k] = READY
                                    THEN "None" ELSE "False"))
      /\ \A k \in 1..Len(Observed) :
            Observed[k] = READY =>
               /\ uploader.indication_received
               /\ ~SaysWord(Observed[k], complete) /\ ~SaysWord(Observed[k], fail)

\* C9's case: the ready signal, then "Transfer Complete" after the chunks
C9_Witness ==
    /\ UploaderWindowElapsed /\ uploader.result = "True"
    /\ Observed = <<READY, TransferComplete>>
    /\ Written(UUID_DATA) # <<>>

\* the trigger writes that failed
FailedTriggers == SelectSeq(link, LAMBDA e : IsWriteTo(e, UUID_TRIGGER) /\ ~e.ok)

\* C10: in DOTTUploader.upload every write to the data characteristic comes
\* after a trigger write that went through and carried the payload length as
\* 4 little-endian bytes; when the trigger write failed both with and
\* without response, upload has returned False and no data write was ever
\* attempted; a chunk is written only after the ready wait has ended; and
\* the completion check is reached only with every chunk written.
C10_PhasesInOrder ==
    uploader.pc # "off" =>
      /\ \A k \in 1..Len(link) :
            IsWriteTo(link[k], UUID_DATA) =>
               /\ uploader.ready # "no"
               /\ \E j \in 1..(k - 1) :
                     /\ IsOkWriteTo(link[j], UUID_TRIGGER)
                     /\ Len(link[j].data) = 4
                     /\ link[j].data[1] + 256 * link[j].data[2]
                          + 65536 * link[j].data[3] + 16777216 * link[j].data[4]
                             = Len(uploader.gif_data)
      /\ (Len(FailedTriggers) = 2 =>
            /\ uploader.pc = "done" /\ uploader.result = "False"
            /\ Attempted(UUID_DATA) = <<>>)
      /\ ((uploader.pc = "completion" \/ UploaderWindowElapsed) =>
            Written(UUID_DATA) = ExpectedChunks(uploader.gif_data, uploader.chunk_size))
      /\ (uploader.result \in {"True", "None"} => UploaderWindowElapsed)

\* C10's case: the trigger write failed with and without response
C10_Witness ==
    /\ uploader.pc = "done" /\ Len(FailedTriggers) = 2
    /\ FailedTriggers[1].response /\ ~FailedTriggers[2].response
    /\ uploader.gif_data # <<>>

\* the ready wait of DOTTUploader.upload has ended without the indication
ReadyTimeoutNotFatal ==
    uploader.pc # "off" =>
      /\ (uploader.ready = "timeout" =>
            uploader.pc \in {"stream", "completion", "done"})
      /\ (uploader.pc \in {"stream", "completion"} => uploader.ready # "no")
      /\ ((uploader.ready = "timeout" /\ uploader.result = "False") =>
            (IsFailedWrite(link[Len(link)]) \/ SawFail))

\* C11: in DOTTUploader.upload the ready wait that follows a trigger write
\* which went through always ends in the streaming loop, with the
\* indication or without it, and a data write is attempted when the payload
\* is not empty; after a ready-wait timeout the result is False only when a
\* chunk write failed or a notification said "fail".
C11_StreamingFollowsTrigger ==
    /\ [](ReadyTimeoutNotFatal)
    /\ (uploader.pc = "ready_wait" ~> uploader.pc = "stream")
    /\ ((uploader.pc = "ready_wait" /\ uploader.gif_data # <<>>)
           ~> (Attempted(UUID_DATA) # <<>>))

\* C11's case: no indication came, the wait timed out, and every chunk of
\* the payload was written
C11_Witness ==
    /\ uploader.pc = "done" /\ uploader.ready = "timeout"
    /\ uploader.result # "False"
    /\ Len(uploader.gif_data) > uploader.chunk_size
    /\ Written(UUID_DATA) = ExpectedChunks(uploader.gif_data, uploader.chunk_size)

\* an indication received since upload began has set the event
ReadyFlagFollowsIndication ==
    uploader.pc \notin {"off", "init", "connected"} =>
       ((\E k \in 1..Len(Observed) : Observed[k] = READY)
           <=> uploader.indication_received)

\* the ready wait times out only when no indication has come since upload
\* began
TimeoutOnlyWithoutIndication ==
    (uploader.pc = "ready_wait" /\ uploader'.ready = "timeout") =>
       \A k \in 1..Len(Observed) : Observed[k] # READY

\* C12: a 0xFFFFFFFF indication that DOTTUploader receives after upload has
\* begun, the time between the trigger write and the ready wait included,
\* sets the event for good, and the ready wait never times out once it has:
\* the wait that follows ends as "indication received".
C12_NoReadySignalLost ==
    [](ReadyFlagFollowsIndication) /\ [][TimeoutOnlyWithoutIndication]_vars

\* C12's case: the indication came while the first trigger write had failed
\* and the second was not yet made, before the wait began, and the wait saw it
C12_Witness ==
    /\ uploader.pc = "stream" /\ uploader.ready = "seen"
    /\ Observed = <<READY>>
    /\ Len(FailedTriggers) = 1

\* the payload is a GIF the display takes: 13 bytes or more, a GIF87a or
\* GIF89a signature, a width and a height of 1..240, the trailer at the end
ValidGif(data) ==
    /\ Len(data) >= 13
    /\ SubSeq(data, 1, 6) \in {<<71, 73, 70, 56, 55, 97>>, <<71, 73, 70, 56, 57, 97>>}
    /\ data[7] + 256 * data[8] \in 1..240
    /\ data[9] + 256 * data[10] \in 1..240
    /\ data[Len(data)] = 59

\* C13: when DOTTClient.upload_gif is given a file that is not a valid GIF
\* and force is not set, it returns False and nothing was read from or
\* written to the link; with force set the same file is streamed: upload_gif
\* returns True unless a chunk failed 5 times, and then the writes that
\* went through are the whole file.
C13_InvalidPayloadNeedsForce ==
    client.pc # "off" =>
      /\ ((client.pc = "done" /\ client.transfer_char
             /\ ~ValidGif(client.data) /\ ~client.force) =>
            (client.result = "False" /\ link = <<>>))
      /\ ((client.force /\ ~ValidGif(client.data) /\ client.pc = "done"
             /\ TailFailures(link) < MAX_RETRIES) =>
            client.result = "True")
      /\ ((client.force /\ ~ValidGif(client.data) /\ client.result = "True") =>
            Flatten(Written(UUID_DOTT_TRANSFER))
               = IF client.send_size_header
                 THEN PackLE32(Len(client.data)) \o client.data
                 ELSE client.data)

\* C13's case: a file without trailer, forced, was streamed in full
C13_Witness ==
    /\ client.pc = "done" /\ client.force /\ client.result = "True"
    /\ Len(client.data) > 13 /\ client.data[Len(client.data)] # 59
    /\ ~client.send_size_header
    /\ Flatten(Written(UUID_DOTT_TRANSFER)) = client.data

\* the six bytes are one of the two signatures
IsSignature(six) ==
    six \in {<<71, 73, 70, 56, 55, 97>>, <<71, 73, 70, 56, 57, 97>>}

\* the first bytes of the payload, six at most
FirstSix(data) == SubSeq(data, 1, IF Len(data) < 6 THEN Len(data) ELSE 6)

\* validate_gif of dott_upload.py has run on the payload
GifRan == validator.pc # "off" /\ validator.gif # NotRun

\* C14: validate_gif of dott_upload.py reports a payload valid exactly when
\* it has 13 bytes or more, begins with GIF87a or GIF89a, has a width and a
\* height, little-endian at offsets 6 and 8, of 1..240, and ends with 0x3B;
\* the payload is the same after the call.
C14_ValidExactlyWhenWellFormed ==
    /\ [](GifRan => (validator.gif[1] <=> ValidGif(validator.data)))
    /\ [][validator.pc # "off" => validator'.data = validator.data]_vars

\* C14's case: a 240x240 file of 13 bytes is valid
C14_Witness ==
    /\ GifRan /\ validator.gif[1]
    /\ Len(validator.data) = 13
    /\ validator.data[7] = 240 /\ validator.data[9] = 240

\* C15, as claimed: a payload that does not begin with a signature gets the
\* bad-signature failure whatever its length.
C15_BadMagicAtAnyLength ==
    (GifRan /\ ~IsSignature(FirstSix(validator.data))) =>
       validator.gif = <<FALSE, "BadMagic">>

\* C15, amended: a payload of 13 bytes or more that does not begin with a
\* signature gets the bad-signature failure, whatever its dimensions and its
\* last byte.
C15_BadMagicFrom13Bytes ==
    (GifRan /\ Len(validator.data) >= 13 /\ ~IsSignature(FirstSix(validator.data))) =>
       validator.gif = <<FALSE, "BadMagic">>

\* C15's case: bad signature, zero width, too high and no trailer at once
C15_Witness ==
    /\ GifRan /\ validator.gif = <<FALSE, "BadMagic">>
    /\ validator.data[7] = 0 /\ validator.data[8] = 0
    /\ validator.data[9] = 241
    /\ validator.data[Len(validator.data)] # 59

\* everything but the last byte is as a valid payload has it
OnlyTrailerMissing ==
    /\ validator.pc # "off"
    /\ validator.data # <<>>
    /\ validator.data[Len(validator.data)] # 59
    /\ ValidGif(SubSeq(validator.data, 1, Len(validator.data) - 1) \o <<59>>)

\* C16: a payload whose last byte is not 0x3B gets the missing-trailer
\* failure from validate_gif of dott_upload.py and from validate_gif of
\* dott_upload_v2.py; stated for the payloads in which nothing else is
\* wrong, where no other failure can take its place.
C16_MissingTrailerIsReported ==
    OnlyTrailerMissing =>
       /\ (validator.gif # NotRun => validator.gif = <<FALSE, "MissingTrailer">>)
       /\ (validator.gif_v2 # NotRun => validator.gif_v2 = <<FALSE, "MissingTrailer">>)

\* C17: validate_gif of dott_upload.py gives the too-small failure to every
\* payload of fewer than 13 bytes, the empty one and those of 12 bytes with
\* a signature included, and never to a payload of 13 bytes.
C17_TooSmallBelow13 ==
    GifRan =>
       /\ (Len(validator.data) < 13 => validator.gif = <<FALSE, "TooSmall">>)
       /\ (Len(validator.data) >= 13 => validator.gif[2] # "TooSmall")

\* C17's case: 12 bytes that begin with a signature
C17_Witness ==
    /\ GifRan /\ validator.gif = <<FALSE, "TooSmall">>
    /\ Len(validator.data) = 12 /\ IsSignature(FirstSix(validator.data))

\* validate_gif_frames has run on the payload
FramesRan == validator.pc # "off" /\ validator.frames.tag # "NotRun"

\* C18: validate_gif_frames returns a result and does not raise, whatever
\* the payload.
C18_FramesNeverRaises == FramesRan => ~validator.frames.raised

\* the partial frames of generated blocks: the images that are not 64x48,
\* each with its position among the images, from 0
PartialOf(blocks) ==
    LET images == SelectSeq(blocks, LAMBDA b : b.kind = "image")
    IN  SelectSeq([i \in 1..Len(images) |-> <<i - 1, <<images[i].w, images[i].h>>>>],
                  LAMBDA e : e[2] # <<64, 48>>)

\* C19: for a file of whole blocks, validate_gif_frames reports partial
\* frames exactly when an image descriptor of the file has a width or a
\* height other than the canvas's, and it reports each of them (three at
\* most) with its position among the image descriptors, from 0, and its own
\* width and height; a payload without an image descriptor byte has no
\* partial frame.
C19_PartialFramesAreTheMismatches ==
    FramesRan =>
      /\ \A gct \in BOOLEAN, blocks \in SeqsUpTo(Blocks, MaxBlocks) :
            validator.data = FrameFile(gct, blocks) =>
               LET partial == PartialOf(blocks)
               IN  /\ ~validator.frames.raised
                   /\ validator.frames.is_valid <=> (partial = <<>>)
                   /\ (validator.frames.tag = "Partial") <=> (partial # <<>>)
                   /\ validator.frames.reported
                        = SubSeq(partial, 1, IF Len(partial) < 3 THEN Len(partial) ELSE 3)
      /\ (\A i \in 1..Len(validator.data) : validator.data[i] # 44) =>
            validator.frames.tag # "Partial"

\* C19's case: a full frame, then a 64x300 one, which is reported as frame 1
C19_Witness ==
    /\ FramesRan /\ validator.frames.tag = "Partial"
    /\ validator.frames.reported = << <<1, <<64, 300>>>> >>
    /\ Len(validator.frames.frames) = 2

\* the chunk size for what the link reports as its MTU: the MTU less the 3
\* bytes of the ATT header, and 20 when there is no MTU or one under 23
FlooredChunk(reported) ==
    IF reported.kind = "int" /\ reported.value >= 23 THEN reported.value - 3 ELSE 20

\* C20: the chunk size of DOTTClient.upload_gif and of DOTTUploader.upload is
\* the MTU less 3 and at least 20, whatever the link reported: DOTTClient
\* keeps an MTU of 23 or more after connect and streams with that MTU less
\* 3, DOTTUploader takes 23 for a missing MTU and 20 for a chunk size under 20.
C20_ChunkSizeIsMtuLessThreeFloored ==
    /\ (client.pc # "off" /\ client.chunk_size # 0) =>
          /\ client.mtu_size >= 23
          /\ client.chunk_size = client.mtu_size - 3
          /\ client.chunk_size >= 20
    /\ (uploader.pc \notin {"off", "init", "connected"}) =>
          /\ uploader.chunk_size = FlooredChunk(uploader.mtu)
          /\ uploader.chunk_size >= 20

\* C20's case: the link reported an MTU of 10 and the upload has streamed
\* with chunks of 20 bytes
C20_Witness ==
    /\ uploader.pc = "done"
    /\ uploader.mtu = MtuInt(10)
    /\ uploader.chunk_size = 20
    /\ Attempted(UUID_DATA) # <<>>

\* min(50 * 2^(n-1), 1000) by cases: the doubling reaches 1600 at n = 6
BackoffTable(n) == IF n <= 5 THEN <<50, 100, 200, 400, 800>>[n] ELSE 1000

\* C21: _calculate_backoff(n) is min(50 * 2^(n-1), 1000) milliseconds for
\* every n >= 1, it never exceeds 1000 ms, and a larger n never gets a
\* shorter delay.
C21_BackoffDoublesUpToCeiling ==
    /\ (backoff.pc \in {"first", "both"}) =>
          /\ backoff.delay_n = BackoffTable(backoff.n)
          /\ backoff.delay_n <= 1000
    /\ (backoff.pc = "both") =>
          /\ backoff.delay_m = BackoffTable(backoff.m)
          /\ (backoff.n <= backoff.m => backoff.delay_n <= backoff.delay_m)

\* C21's case: the last doubled delay and the first capped one
C21_Witness ==
    /\ backoff.pc = "both"
    /\ backoff.n = 5 /\ backoff.delay_n = 800
    /\ backoff.m = 6 /\ backoff.delay_m = 1000

\* a step of the session that sends a command
CommandSent == session.pc = "idle" /\ session'.pc \in {"waiting", "raised"}

\* the number after seq in 0..255
SeqAfter(seq) == IF seq = 255 THEN 0 ELSE seq + 1

\* a command takes the number after the session's and carries it in byte 6
\* of its packet, however the wait of the command before it ended; no other
\* step changes the number
SeqAdvancesByOne ==
    (session.pc # "off") =>
       IF CommandSent
       THEN /\ session'.seq = SeqAfter(session.seq)
            /\ session'.packet[7] = session'.seq
       ELSE session'.seq = session.seq

\* C22: in one DOTTFlasher session every command is sent with the number
\* after the previous command's, modulo 256: the number stays in 0..255,
\* 0 follows 255, and it advances by one per command whether the command
\* before got a response or timed out.
C22_SequenceAdvancesMod256 ==
    /\ [](session.pc # "off" => session.seq \in 0..255)
    /\ [][SeqAdvancesByOne]_vars

\* C22's case: the command after number 255, which timed out, is sent with 0
C22_Witness ==
    /\ session.pc = "waiting"
    /\ session.seq = 0 /\ session.packet[7] = 0
    /\ session.ended = "timeout"

\* a step of upload_firmware that writes an upload request
UploadRequested ==
    /\ flasher.pc # "off" /\ flasher'.pc # "off"
    /\ Len(link') = Len(link) + 1
    /\ link'[Len(link')].data[8] = SMPCmd_IMG_UPLOAD

\* the request written by the step, decoded
NewRequest == parse_smp_response(link'[Len(link')].data).result

\* C23, as claimed: len and sha are in the first request of an upload and in
\* no other request of it, whatever the device answers.
C23_TotalsInFirstRequestOnly ==
    [][UploadRequested =>
          \A request \in {NewRequest.m} :
             /\ DictHas(request, K_len) <=> (link = <<>>)
             /\ DictHas(request, K_sha) <=> (link = <<>>)]_vars

\* C23, amended: len and sha are in the requests sent from offset 0 and in
\* no other: in the first request, and in a later one exactly when the
\* device's response sent the upload back to offset 0; they are the size and
\* the digest of the image.
C23_TotalsInRequestsFromZero ==
    [][UploadRequested =>
          \A request \in {NewRequest.m} :
             LET off == DictGet(request, K_off, CNone)
             IN  /\ link = <<>> => off = CInt(0)
                 /\ DictHas(request, K_len) <=> (off = CInt(0))
                 /\ DictHas(request, K_sha) <=> (off = CInt(0))
                 /\ (off = CInt(0)) =>
                       /\ DictGet(request, K_len, CNone) = CInt(flasher.total_size)
                       /\ DictGet(request, K_sha, CNone)
                             = CBytes(Sha256(flasher.firmware_data))]_vars

\* C23's case: the response to the first chunk reports offset 0, and the
\* second request, sent from 0, carries len and sha again
C23_Witness ==
    /\ flasher.pc = "waiting" /\ Len(link) = 2
    /\ Accepted(1) /\ ReportsOff(1) /\ ReportedOff(1) = 0
    /\ SentOff(2) = 0
    /\ DictHas(Sent[2].result.m, K_len) /\ DictHas(Sent[2].result.m, K_sha)

\* the packet was built from the arguments
Built == codec.pc \in {"packet", "parsed"} /\ codec.origin = "built"

\* C24: build_smp_packet gives 8 header bytes, op, flags, length (2 bytes,
\* high byte first), group (2 bytes, high byte first), seq, cmd, and then
\* the serialized payload; flags is 0 and length is the number of bytes of
\* the payload that follows.
C24_HeaderThenPayload ==
    Built =>
       LET p == codec.packet
       IN  /\ Len(p) >= 8
           /\ p[1] = codec.args.op
           /\ p[2] = 0
           /\ p[3] * 256 + p[4] = Len(p) - 8
           /\ p[5] * 256 + p[6] = codec.args.group
           /\ p[7] = codec.args.seq
           /\ p[8] = codec.args.cmd_id
           /\ \A k \in 1..8 : p[k] \in 0..255
           /\ SubSeq(p, 9, Len(p)) = CborDumps(codec.args.data)

\* C24's case: a payload of more than 255 bytes and a group of 256, where
\* the order of the two bytes shows
C24_Witness ==
    /\ Built
    /\ Len(codec.packet) > 8 + 255
    /\ codec.packet[3] = 1
    /\ codec.args.group = 256 /\ codec.packet[5] = 1 /\ codec.packet[6] = 0

\* C25: parse_smp_response of the packet build_smp_packet made of (op,
\* group, cmd, fields, seq) gives a header with that op, group, cmd and seq,
\* and the fields that were encoded.
C25_ParseInvertsBuild ==
    (codec.pc = "parsed" /\ codec.origin = "built") =>
       /\ codec.parsed.ok
       /\ codec.parsed.op = codec.args.op
       /\ codec.parsed.group = codec.args.group
       /\ codec.parsed.cmd = codec.args.cmd_id
       /\ codec.parsed.seq = codec.args.seq
       /\ codec.parsed.result = codec.args.data

\* C25's case: the first upload request of an image, with five fields, sent
\* with sequence number 255 and command 1
C25_Witness ==
    /\ codec.pc = "parsed" /\ codec.origin = "built"
    /\ Len(codec.args.data.m) = 5
    /\ codec.args.seq = 255 /\ codec.parsed.seq = 255
    /\ codec.args.cmd_id = 1 /\ codec.parsed.cmd = 1
    /\ codec.parsed.result = codec.args.data

\* a packet of the device has been parsed
ParsedReceived == codec.pc = "parsed" /\ codec.origin = "received"

\* the length the header of the packet declares, and the bytes after the header
DeclaredLength == codec.packet[3] * 256 + codec.packet[4]
BytesAfterHeader == SubSeq(codec.packet, 9, Len(codec.packet))

\* C26: parse_smp_response reports a failure, (None, None), for a packet
\* whose header declares more payload bytes than follow the header.
C26_ShortPayloadIsAFailure ==
    (ParsedReceived /\ Len(codec.packet) >= 8
        /\ DeclaredLength > Len(BytesAfterHeader)) =>
       ~codec.parsed.ok

\* the bodies cbor2.loads raises on: a map and a text string that end too
\* early, and a break code outside an indefinite item
Undecodable == {BodyCut3, BodyCut2, BodyBreak}

\* the header of the packet, read byte by byte
HeaderAsSent ==
    /\ codec.parsed.ok
    /\ codec.parsed.op = codec.packet[1]
    /\ codec.parsed.group = codec.packet[5] * 256 + codec.packet[6]
    /\ codec.parsed.seq = codec.packet[7]
    /\ codec.parsed.cmd = codec.packet[8]

\* C28, as claimed: for a body that cannot be decoded as a key-value map,
\* the result is the header and the raw bytes of the body (stated for the
\* bodies that are not empty).
C28_RawBytesUnlessMap ==
    (ParsedReceived /\ Len(codec.packet) >= 8
        /\ DeclaredLength = Len(BytesAfterHeader)
        /\ BytesAfterHeader \notin {BodyRc0, <<>>}) =>
       /\ HeaderAsSent
       /\ codec.parsed.result = CBytes(BytesAfterHeader)

\* C28, amended: for a body on which the CBOR decoding fails, the result is
\* the header and the raw bytes of the body; a body that decodes to
\* something other than a map is returned decoded, and an empty body as {}.
C28_RawBytesWhenDecodingFails ==
    (ParsedReceived /\ Len(codec.packet) >= 8
        /\ DeclaredLength = Len(BytesAfterHeader)) =>
       /\ HeaderAsSent
       /\ (BytesAfterHeader \in Undecodable) =>
              codec.parsed.result = CBytes(BytesAfterHeader)
       /\ (BytesAfterHeader = BodyInt0) => codec.parsed.result = CInt(0)
       /\ (BytesAfterHeader = <<>>) => codec.parsed.result = CMap(<<>>)

\* C28's case: a map that ends after its first key comes back as 3 bytes
C28_Witness ==
    /\ ParsedReceived
    /\ BytesAfterHeader = BodyCut3
    /\ codec.parsed.ok /\ codec.parsed.seq = 7
    /\ codec.parsed.result = CBytes(BodyCut3)

\* C27: for a notification of fewer than 8 bytes parse_smp_response gives
\* (None, None), no header and no fields, and smp_command, which goes on to
\* its return, returns None for the command.
C27_ShortResponseGivesNone ==
    (session.pc # "off" /\ session.ended = "response" /\ Len(session.taken) < 8) =>
       /\ ~session.parsed.ok
       /\ session.parsed.result = CNone
       /\ session.returned = CNone

\* C27's case: the wait ended with a notification of 7 bytes
C27_Witness ==
    /\ session.pc = "idle" /\ session.ended = "response"
    /\ Len(session.taken) = 7
    /\ session.returned = CNone

\* the waits of all the requests written so far have ended, each with a
\* response taken from the queue
AllAnswered ==
    /\ Len(flasher.answers) = Len(link)
    /\ \A k \in 1..Len(flasher.answers) : flasher.answers[k].got = "response"

\* a request is written only when the requests before it are answered,
\* and none once a wait has timed out
RequestsOneAtATime ==
    (flasher.pc # "off" /\ flasher'.pc # "off") =>
       /\ (link' # link) => AllAnswered
       /\ (\E k \in 1..Len(flasher.answers) : flasher.answers[k].got = "timeout") =>
              link' = link

\* C29: upload_firmware has at most one request without an ended wait at
\* any time: the next chunk request is written only after the wait for the
\* one before it ended with a response taken from the queue, and after a
\* timeout no request is written any more.
C29_OneRequestOutstanding ==
    /\ [](flasher.pc # "off" => Len(link) - Len(flasher.answers) \in {0, 1})
    /\ [][RequestsOneAtATime]_vars

\* C29's case: the third chunk request is out, the first two are answered
C29_Witness ==
    /\ flasher.pc = "waiting"
    /\ Len(link) = 3 /\ Len(flasher.answers) = 2
    /\ link[3].data[8] = SMPCmd_IMG_UPLOAD
    /\ flasher.answers[1].got = "response" /\ flasher.answers[2].got = "response"

\* smp_command is waiting for a response
SmpWaiting == flasher.pc \in {"waiting", "verifying"}

\* a wait of smp_command that ends on an empty queue returns None
EmptyQueueGivesNone ==
    (SmpWaiting /\ flasher.responses = <<>> /\ flasher'.pc \notin {"waiting", "verifying"}) =>
       LET answer == flasher'.answers[Len(flasher'.answers)]
       IN  /\ Len(flasher'.answers) = Len(flasher.answers) + 1
           /\ answer.got = "timeout"
           /\ answer.result = CNone

\* the device was silent and the link took every write
SilentDevice ==
    /\ notified = 0 /\ uploader.notifications = <<>>
    /\ \A k \in 1..Len(link) : link[k].ok

\* C30: no wait on notifications is without end.  A wait of smp_command
\* does not stay on an empty queue: a response arrives or the wait ends, and
\* a wait that ends on the empty queue returns None; every upload of
\* DOTTUploader that has begun reaches its return, and with a silent device
\* and a link that takes every write it returns None, after the ready wait
\* has timed out and the completion wait has passed.
C30_EveryWaitEnds ==
    /\ (SmpWaiting /\ flasher.responses = <<>>)
          ~> (~SmpWaiting \/ flasher.responses # <<>>)
    /\ [][EmptyQueueGivesNone]_vars
    /\ (uploader.pc = "pre1") ~> (uploader.pc = "done")
    /\ [](uploader.pc = "done" => uploader.result # "Pending")
    /\ []((uploader.pc = "done" /\ SilentDevice) =>
            (uploader.ready = "timeout" /\ uploader.result = "None"))

\* C30's case: the device never notified, every write went through, and
\* the upload has returned
C30_Witness ==
    /\ uploader.pc = "done" /\ SilentDevice
    /\ uploader.gif_data # <<>>
    /\ Attempted(UUID_DATA) # <<>>
    /\ uploader.result = "None"

\* the link is gone: the newest write raised, and none succeeded after it
LinkLost == link # <<>> /\ ~link[Len(link)].ok

\* DOTTUploader.upload returns False when it ends on a lost link
UploaderFailsOnLostLink ==
    (uploader.pc = "done" /\ LinkLost) => uploader.result = "False"

\* DOTTFlasher.upload_firmware returns False when it ends on a lost link
FlasherFailsOnLostLink ==
    (flasher.pc = "done" /\ LinkLost) => flasher.result = "False"

\* C31: a transfer that ends because a link write raised ends in the Failed
\* outcome: the upload returns False to its caller, for DOTTUploader.upload
\* and for DOTTFlasher.upload_firmware; it returns neither True nor None,
\* and no error leaves it.
C31_LostLinkIsAFailure ==
    /\ UploaderFailsOnLostLink
    /\ FlasherFailsOnLostLink

\* the step is the end of the wait for a chunk's response, and smp_command
\* returns what was dequeued
ChunkAnswered ==
    /\ flasher.pc = "waiting" /\ flasher.responses # <<>>
    /\ Len(flasher'.answers) = Len(flasher.answers) + 1

\* the result smp_command returned in the step
NewestResult == flasher'.answers[Len(flasher'.answers)].result

\* C33: a chunk response whose body is no key-value map, because it cannot
\* be decoded and comes back as raw bytes or because it decodes to another
\* value, ends upload_firmware with the result False; no error leaves it.
C33_NoMapIsAFailure ==
    [][(ChunkAnswered /\ NewestResult.t \notin {"map", "None"}) =>
          (flasher'.pc = "done" /\ flasher'.result = "False")]_vars

\* the byte positions of the image, from 1, that some upload request carried
\* in its data field
Carried ==
    UNION { (SentOff(k) + 1)..(SentOff(k) + Len(BytesOf(Sent[k]))) :
              k \in {j \in 1..Len(link) : IsUpload(j)} }

\* every chunk request was answered by a response with rc = 0
AllAccepted ==
    \A k \in 1..Len(link) :
       IsUpload(k) =>
          /\ k <= Len(flasher.answers)
          /\ flasher.answers[k].got = "response"
          /\ flasher.answers[k].result.t = "map"
          /\ ResultRc(flasher.answers[k].result) = CInt(0)

\* C35: upload_firmware returns True only if every byte of the image was
\* carried by some upload request and every chunk response had rc = 0; an
\* `off` at or beyond total_size reported early does not lead to True with
\* part of the image unsent.
C35_SuccessMeansAllSent ==
    (flasher.pc = "done" /\ flasher.result = "True") =>
       /\ (1..flasher.total_size) \subseteq Carried
       /\ AllAccepted

\* the result has no rc field
NoRc(result) == result.t = "map" /\ ~DictHas(result.m, K_rc)

\* C36: a chunk response without an rc field is a rejection: the upload
\* ends with False at the offset it had, even when the response carries an
\* `off`, and no request is sent after it.
C36_NoRcIsARejection ==
    /\ [][(ChunkAnswered /\ NoRc(NewestResult)) =>
             /\ flasher'.pc = "done" /\ flasher'.result = "False"
             /\ flasher'.offset = flasher.offset
             /\ link' = link]_vars
    /\ [][flasher.pc = "done" => link' = link]_vars

\* C36's case: the response to the second chunk has an `off` and no rc, and
\* the upload has ended with False
C36_Witness ==
    /\ flasher.pc = "done" /\ flasher.result = "False"
    /\ Len(flasher.answers) = 2 /\ Len(link) = 2
    /\ flasher.offset = 128
    /\ NoRc(flasher.answers[2].result)
    /\ DictHas(flasher.answers[2].result.m, K_off)

\* C37: when a notification with "complete" and one with "fail" were both
\* received during an upload of DOTTUploader that came to its result check,
\* the result is True, in whichever order the two arrived.
C37_CompleteBeatsFail ==
    uploader.pc # "off" =>
       ((UploaderWindowElapsed /\ SawComplete /\ SawFail) => uploader.result = "True")

\* C37's case: "ERROR: fail" was the last notification of the upload, after
\* "Transfer Complete", and the upload returned True
C37_Witness ==
    /\ UploaderWindowElapsed /\ uploader.result = "True"
    /\ Observed = <<TransferComplete, ErrorFail>>
    /\ Written(UUID_DATA) # <<>>

\* the step in which the trigger write goes through and the ready wait begins
ReadyWaitBegins ==
    /\ uploader.pc \in {"trigger", "trigger2"}
    /\ uploader'.pc = "ready_wait"

\* C39: the ready wait of DOTTUploader.upload is satisfied only by a
\* 0xFFFFFFFF notification received after the trigger was written: when the
\* wait begins the event is not set, so that a 0xFFFFFFFF received between
\* the start of the upload and the trigger write does not end the wait.
C39_ReadyOnlyAfterTrigger ==
    [][ReadyWaitBegins => ~uploader'.indication_received]_vars

C34_UploadReturns == (looper.pc = "loop") ~> (looper.pc = "done")

\* the notifications an attempt was decided on that its own data caused
OwnTexts(j) ==
    TextsOf(SelectSeq(tester.results[j].seen, LAMBDA n : n.cause = j))

\* C38: the result of each attempt of run_tests is decided by the
\* notifications the device sent because of that attempt alone: a
\* notification caused by an earlier attempt and delivered after the list
\* was cleared for the next one does not decide the next one's result.
C38_OwnNotificationsDecide ==
    tester.pc # "off" =>
       \A j \in 1..Len(tester.results) :
          tester.results[j].result = TestResult(OwnTexts(j))

===========================================================================
